---- MODULE Spec2Model ----
(***************************************************************************)
(* Verification model of the agent-orchestration layer:                    *)
(*   - the interrupt/resume streaming protocol (ChatRunner, ChatService,   *)
(*     the WebSocket action handlers) over the agent/tools workflow graph; *)
(*   - the per-chunk event translation of the two streaming generators;    *)
(*   - the edge router of the middleware agent graph.                      *)
(*   - the construction of the graph's nodes and the wrapper chains;       *)
(*   - the model executor's binding and structured-output handling.        *)
(*   - the virtual filesystem of the agent state and the eviction of large *)
(*     tool results into it;                                               *)
(*   - the task tool, which runs a child agent on a state seeded from the  *)
(*     parent's;                                                           *)
(*   - the merge of the middleware's state schemas;                        *)
(*   - one run of the compiled graph under its recursion limit;            *)
(*   - a tool behind the approval wrapper.                                 *)
(* The specifications SpecChat, SpecRetry, SpecStream, SpecRouter,         *)
(* SpecBuild, SpecChain, SpecExecute, SpecFiles, SpecTask, SpecSchema,     *)
(* SpecRun and SpecApproval share the module; each keeps the other parts'  *)
(* variables fixed.                                                        *)
(***************************************************************************)
EXTENDS Integers, Sequences, FiniteSets, TLC

VARIABLES
    \* ---- checkpointed thread state (the durable store, per thread id)
    msgs,       \* thread -> transcript (state.values["messages"])
    nxt,        \* thread -> pending continuation (state.next): "none", "agent", "tools"
    ints,       \* thread -> set of pending interrupt ids (state.interrupts)
    ckpts,      \* thread -> number of checkpoints written (length of the history)
    bodyRuns,   \* thread -> number of executions of an approval-wrapped tool body
    nextIid,    \* next interrupt id the engine hands out
    \* ---- one WebSocket connection (active_connections[connection_id])
    connThread, \* active_connections[cid]["thread_id"]
    pending,    \* keys of active_connections[cid]["pending_interrupts"]
    \* ---- the request being served on the connection
    req,        \* the handler in progress and the position of its run
    sent,       \* events delivered to the client for the current/last request
    reqCount,   \* number of requests received on the connection
    cstreak,    \* thread -> statuses of the cancel_interrupt calls made in a row
    \* ---- chunk-level streaming generators (SpecStream)
    sMode,      \* "idle", "unified", "resume", then "<mode>_closed" or "<mode>_failed"
    sOut,       \* events yielded by the generator so far
    sFed,       \* chunks the engine has produced so far
    \* ---- edge router (SpecRouter)
    rCfg,       \* the agent configuration the graph is built from
    rState,     \* the graph state a routing function is applied to
    rAt,        \* the node whose conditional edge was evaluated last
    rRet,       \* the destinations that routing function returned
    \* ---- graph construction (SpecBuild)
    bMiddleware,\* the middleware list given to create_agent_impl
    bToolNode,  \* whether setup_tools produced a tool node
    bPhase,     \* the phase create_agent_impl is in
    bTodo,      \* the rest of all_middleware_to_add in add_middleware_nodes
    bNodes,     \* the nodes of the graph, in the order they were added
    \* ---- wrapper chains (SpecChain)
    hComposer,  \* which of the four composers built the chain
    hHandlers,  \* the wrapper list given to the composer
    hStack,     \* the wrapper calls in progress, innermost last
    hLog,       \* the wrapper entries, leaf runs and wrapper returns so far
    hResult,    \* what the composed handler returned
    \* ---- model executor (SpecExecute)
    eRequest,   \* the ModelRequest handed to the executor
    ePhase,     \* "idle", "request", "bound", "invoked", then "returned" or "raised"
    eBound,     \* what get_bound_model returned
    eOutput,    \* the model's turn
    eHandled,   \* what handle_model_output returned
    \* ---- virtual filesystem (SpecFiles)
    fLimit,     \* tool_token_limit_before_evict of the filesystem middleware
    fFiles,     \* state["files"]: path -> lines of the file
    fTurn,      \* the tool calls of the assistant turn in progress, with results
    fPhase,     \* "idle", "running" (tools step), "applied" (updates in the state)
    fTurns,     \* number of assistant turns so far
    \* ---- task tool of SubAgentMiddleware (SpecTask)
    tParent,    \* the parent agent's state: key -> value
    tGeneral,   \* general_purpose_agent of the middleware
    tCall,      \* the arguments of the task tool call in progress
    tChild,     \* the state of the child agent: key -> value
    tSteps,     \* steps the child has run
    tPhase,     \* "off", "ready", "child", "returned", "error"
    \* ---- resolution of the state schemas (SpecSchema)
    gSchemas,   \* the schemas to merge (state_schemas of resolve_state_schemas)
    gPass,      \* "off", "state", "input", "output", "done": the schema being built
    gTodo,      \* schemas the loop of _resolve_schema has not visited yet
    gAll,       \* all_annotations of the pass in progress
    gResolved,  \* the schemas built so far: pass -> fields
    \* ---- one run of the compiled graph under the recursion limit (SpecRun)
    pCfg,       \* the configuration the graph was built from
    pState,     \* the slice of the graph state the edges read
    pAt,        \* the node scheduled for the next step
    pSteps,     \* steps the engine has run in this run
    pPhase,     \* "off", "running", "ended", "interrupted", "failed"
    \* ---- a tool wrapped with require_approval (SpecApproval)
    aArgs,      \* the arguments of the tool call in progress
    aPhase,     \* "off", "ready", "paused", "returned", "raised", "cancelled"
    aResp,      \* the user_response of the last resume
    aExec,      \* the arguments of every execution of the tool body, in order
    aResult,    \* what the wrapper returned for the call: "none", "body", "denied"
    aCalls      \* tool calls made so far

chatVars   == <<msgs, nxt, ints, ckpts, bodyRuns, nextIid, connThread, pending,
                req, sent, reqCount, cstreak>>
streamVars == <<sMode, sOut, sFed>>
routerVars == <<rCfg, rState, rAt, rRet>>
buildVars  == <<bMiddleware, bToolNode, bPhase, bTodo, bNodes>>
chainVars  == <<hComposer, hHandlers, hStack, hLog, hResult>>
executeVars == <<eRequest, ePhase, eBound, eOutput, eHandled>>
filesVars  == <<fLimit, fFiles, fTurn, fPhase, fTurns>>
taskVars == <<tParent, tGeneral, tCall, tChild, tSteps, tPhase>>
schemaVars == <<gSchemas, gPass, gTodo, gAll, gResolved>>
runVars == <<pCfg, pState, pAt, pSteps, pPhase>>
approvalVars == <<aArgs, aPhase, aResp, aExec, aResult, aCalls>>
vars       == <<chatVars, streamVars, routerVars, buildVars, chainVars, executeVars, filesVars, taskVars, schemaVars, runVars, approvalVars>>

-----------------------------------------------------------------------------
(* Bounds of the model *)

MaxMsgs == 8
MaxRequests == 4
MaxChunks == 3
MaxInterrupts == 2
MaxMiddleware == 2
MaxWrappers == 3
MaxNextCalls == 2
MaxToolCalls == 3
MaxTurns == 2
MaxCalls == 2
MaxChildSteps == 3
MaxSchemas == 2
MaxApprovalCalls == 2
EvictLimit == 500

Threads  == {"t1", "t2"}
NoThread == "no_thread"
NoId     == 0

-----------------------------------------------------------------------------
(* Messages and the add_messages reducer of AgentState.messages *)

\* A message: its id, its type, the number of tool calls it carries, and
\* whether its content is the one it was written with or a replacement.
Msg(id, type, calls) == [id |-> id, type |-> type, calls |-> calls, content |-> "original"]

HumanMessage  == Msg(NoId, "human", 0)
SystemMessage == Msg(NoId, "system", 0)
AIMessage(c)  == Msg(NoId, "ai", c)
ToolMessage   == Msg(NoId, "tool", 0)

RECURSIVE MaxMsgId(_)
MaxMsgId(s) ==
    IF s = <<>> THEN 0
    ELSE LET r == MaxMsgId(Tail(s)) IN IF Head(s).id > r THEN Head(s).id ELSE r

IndexOfId(s, id) ==
    IF \E i \in 1..Len(s) : s[i].id = id
    THEN CHOOSE i \in 1..Len(s) : s[i].id = id
    ELSE 0

\* A faulty variant of the reducer: plain list concatenation (operator.add).
RECURSIVE ConcatMessages(_, _)
ConcatMessages(left, right) ==
    IF right = <<>> THEN left
    ELSE LET m == Head(right)
             n == IF m.id = NoId THEN [m EXCEPT !.id = MaxMsgId(left) + 1] ELSE m
         IN  ConcatMessages(Append(left, n), Tail(right))

\* add_messages: a message without an id gets a fresh one; a message whose id
\* is already in the list replaces that entry in place; any other is appended.
RECURSIVE add_messages(_, _)
add_messages(left, right) ==
    IF right = <<>> THEN left
    ELSE LET m == Head(right)
             n == IF m.id = NoId THEN [m EXCEPT !.id = MaxMsgId(left) + 1] ELSE m
             i == IndexOfId(left, n.id)
         IN  add_messages(IF i = 0 THEN Append(left, n) ELSE [left EXCEPT ![i] = n],
                          Tail(right))

-----------------------------------------------------------------------------
(* The workflow graph: START -> agent -> (tools | END), tools -> agent *)

\* should_continue: "tools" when the last message carries tool calls.
should_continue(messages) ==
    IF messages[Len(messages)].calls > 0 THEN "tools" ELSE "end"

\* The state.next left by a write made as node "agent" (the conditional edge).
NextAfterAgent(messages) ==
    IF should_continue(messages) = "tools" THEN "tools" ELSE "none"

-----------------------------------------------------------------------------
(* Engine chunks and the events the ChatRunner generators yield *)

Interrupt(id) == [id |-> id, value |-> "approval_payload"]

MessagesChunk(content) == [ch |-> "messages", content |-> content, hasInt |-> FALSE, ints |-> <<>>]
ValuesChunk            == [ch |-> "values", content |-> FALSE, hasInt |-> FALSE, ints |-> <<>>]
InterruptChunk(is)     == [ch |-> "values", content |-> FALSE, hasInt |-> TRUE, ints |-> is]
CustomChunk            == [ch |-> "custom", content |-> TRUE, hasInt |-> FALSE, ints |-> <<>>]

\* An event dictionary of the runner: its "type", whether it carries
\* "thread_id", the interrupt it reports, and the optional fields.
Ev(type) == [type |-> type, hasTid |-> TRUE, iid |-> NoId, value |-> "", resumed |-> FALSE,
             ns |-> FALSE, tags |-> FALSE, hasInt |-> FALSE]

\* ChatRunner.stream: single-mode "messages" streaming, each chunk wrapped
\* as {"thread_id", "chunk"} without a "type".
LegacyChunkEvents(c) ==
    IF c.ch = "messages" THEN << [Ev("untyped") EXCEPT !.value = "chunk"] >> ELSE <<>>

\* A faulty variant of the values branch: the state summary first, the interrupts after.
UnifiedValuesSummaryFirst(c) ==
    << [Ev("state_update") EXCEPT !.hasInt = c.hasInt] >>
    \o (IF c.hasInt
        THEN [i \in 1..Len(c.ints) |->
                [Ev("interrupt_detected") EXCEPT !.iid = c.ints[i].id,
                                                 !.value = c.ints[i].value, !.ns = TRUE]]
        ELSE <<>>)

\* ChatRunner.unified_stream, the "values" branch.
UnifiedValuesEvents(c) ==
    (IF c.hasInt
     THEN [i \in 1..Len(c.ints) |->
             [Ev("interrupt_detected") EXCEPT !.iid = c.ints[i].id,
                                              !.value = c.ints[i].value, !.ns = TRUE]]
     ELSE <<>>)
    \o << [Ev("state_update") EXCEPT !.hasInt = c.hasInt] >>

\* ChatRunner.unified_stream, the body of the loop for one (event_type, chunk).
UnifiedChunkEvents(c) ==
    CASE c.ch = "messages" ->
            IF c.content THEN << [Ev("ai_token") EXCEPT !.tags = TRUE] >> ELSE <<>>
      [] c.ch = "values"   -> UnifiedValuesEvents(c)
      [] c.ch = "custom"   -> << Ev("question_token") >>

\* ChatRunner.resume_interrupt, the body of the loop for one (event_type, chunk).
ResumeChunkEvents(c) ==
    CASE c.ch = "messages" ->
            IF c.content THEN << [Ev("ai_token") EXCEPT !.resumed = TRUE] >> ELSE <<>>
      [] c.ch = "values"   ->
            IF c.hasInt
            THEN [i \in 1..Len(c.ints) |->
                    [Ev("interrupt_detected") EXCEPT !.iid = c.ints[i].id,
                                                     !.value = c.ints[i].value]]
            ELSE <<>>
      [] c.ch = "custom"   -> << Ev("question_token") >>

\* The error event of the two multi-mode generators (it carries thread_id).
RunnerErrorEvent == Ev("error")

\* ChatService.stream_message: the error event it yields carries no thread_id.
ServiceErrorEvent == [Ev("error") EXCEPT !.hasTid = FALSE]

\* The events a generator yields for a sequence of chunks, in order.
RECURSIVE LegacyEvents(_)
LegacyEvents(cs) ==
    IF cs = <<>> THEN <<>> ELSE LegacyChunkEvents(Head(cs)) \o LegacyEvents(Tail(cs))

RECURSIVE ResumeEvents(_)
ResumeEvents(cs) ==
    IF cs = <<>> THEN <<>> ELSE ResumeChunkEvents(Head(cs)) \o ResumeEvents(Tail(cs))

-----------------------------------------------------------------------------
(* WebSocket handlers *)

\* An event sent to the client.
Ws(event) == [event |-> event, iid |-> NoId, value |-> "", resumed |-> FALSE]

\* handle_streaming_event: what is sent, which interrupt is recorded in
\* pending_interrupts, and whether the lookup of event["thread_id"] raises.
HandleStreamingEvent(e, resumed) ==
    CASE e.type = "ai_token" ->
            IF e.hasTid
            THEN [out |-> << [Ws("ai_token") EXCEPT !.resumed = resumed] >>,
                  add |-> {}, raises |-> FALSE]
            ELSE [out |-> <<>>, add |-> {}, raises |-> TRUE]
      [] e.type = "interrupt_detected" ->
            IF e.hasTid
            THEN [out |-> << [Ws("interrupt_detected") EXCEPT !.iid = e.iid, !.value = e.value] >>,
                  add |-> {e.iid}, raises |-> FALSE]
            ELSE [out |-> <<>>, add |-> {e.iid}, raises |-> TRUE]
      [] e.type = "question_token" ->
            IF e.hasTid
            THEN [out |-> << Ws("question_token") >>, add |-> {}, raises |-> FALSE]
            ELSE [out |-> <<>>, add |-> {}, raises |-> TRUE]
      [] e.type = "state_update" ->
            IF e.hasTid
            THEN [out |-> << Ws("state_update") >>, add |-> {}, raises |-> FALSE]
            ELSE [out |-> <<>>, add |-> {}, raises |-> TRUE]
      [] e.type = "error" ->
            IF e.hasTid
            THEN [out |-> << Ws("error") >>, add |-> {}, raises |-> FALSE]
            ELSE [out |-> <<>>, add |-> {}, raises |-> TRUE]
      [] OTHER -> [out |-> <<>>, add |-> {}, raises |-> FALSE]

\* The "async for event in ...: await handle_streaming_event(...)" loop over
\* the events of one step; it stops at the first event whose handling raises.
RECURSIVE HandleAll(_, _)
HandleAll(es, resumed) ==
    IF es = <<>> THEN [out |-> <<>>, add |-> {}, raises |-> FALSE]
    ELSE LET h == HandleStreamingEvent(Head(es), resumed)
         IN  IF h.raises THEN h
             ELSE LET r == HandleAll(Tail(es), resumed)
                  IN  [out |-> h.out \o r.out, add |-> h.add \cup r.add, raises |-> r.raises]

-----------------------------------------------------------------------------
(* The checkpoint store as ChatRunner uses it *)

Responses == {"approve", "deny"}

IdleReq == [op |-> "none", phase |-> "idle", tid |-> NoThread, node |-> "end",
            answer |-> FALSE, resp |-> "approve", iid |-> NoId,
            raised |-> FALSE, status |-> "", paused |-> {}, afterCancel |-> FALSE,
            target |-> NoId, modified |-> FALSE]

\* generate_thread_id(): a thread id no request has used yet.
UnusedThreads == {t \in Threads : ckpts[t] = 0}
FreshThread   == CHOOSE t \in UnusedThreads : TRUE

\* A faulty variant of the state write: the pending continuation is left in place.
UpdatedNextKeepsPending(t, messages, eng) == nxt[t]

\* graph.aupdate_state(config, values) without as_node: the write is made as
\* the node that ran last, and that node's outgoing edges decide state.next.
\* Paused in "tools", the last node was "agent": should_continue is applied
\* to the updated transcript.  With "agent" pending after a failed run the
\* engine may keep the pending node or clear it (eng), or refuse the write.
UpdatedNext(t, messages, eng) ==
    IF nxt[t] = "tools" THEN NextAfterAgent(messages)
    ELSE IF eng = "kept" THEN nxt[t] ELSE "none"

\* What the engine does with the write of cancel_interrupt.
EngineOutcomes == {"cleared", "kept", "raised"}

\* A faulty variant of cancel_interrupt's guard: the test inverted.
NothingPendingInverted(t) == nxt[t] # "none"

\* cancel_interrupt's test "not state.next".
NothingPending(t) == nxt[t] = "none"

\* ChatRunner.cancel_interrupt: the status returned.
CancelStatus(t, eng) ==
    IF NothingPending(t) THEN "no_interrupts"
    ELSE IF eng = "raised" THEN "error" ELSE "cancelled"

\* ChatRunner.cancel_interrupt: new_state["messages"].
CancelMessages(t) == msgs[t] \o << SystemMessage >>

-----------------------------------------------------------------------------
(* Actions of the connection *)

\* The other parts of the module do not move while the connection is served.
ChatFrame == UNCHANGED <<streamVars, routerVars, buildVars, chainVars, executeVars, filesVars, taskVars, schemaVars, runVars, approvalVars>>

Receiving == req.phase # "stream" /\ reqCount < MaxRequests

KnownIds == 0..(nextIid - 1)

\* The request served last cancelled an interrupt that was pending on t.
CancelledJustBefore(t) ==
    req.op = "cancel" /\ req.status = "cancelled" /\ req.tid = t /\ req.paused # {}

\* handle_send_message_action up to the start of the stream; the engine
\* applies the input {"messages": [human]} and schedules "agent".
SendMessage(given, bad) ==
    /\ Receiving
    /\ given = NoThread => UnusedThreads # {}
    /\ LET t == IF given = NoThread THEN FreshThread ELSE given IN
       /\ Len(msgs[t]) + 2 <= MaxMsgs
       /\ connThread' = t
       /\ reqCount' = reqCount + 1
       /\ IF bad
          THEN /\ sent' = << Ws("error") >>
               /\ req' = [IdleReq EXCEPT !.op = "send", !.phase = "done", !.tid = t]
               /\ UNCHANGED <<msgs, nxt, ints, ckpts, cstreak>>
          ELSE /\ sent' = << Ws("message_started") >>
               /\ req' = [IdleReq EXCEPT !.op = "send", !.phase = "stream", !.tid = t,
                                         !.node = "agent",
                                         !.afterCancel = CancelledJustBefore(t)]
               /\ msgs' = [msgs EXCEPT ![t] = add_messages(@, << HumanMessage >>)]
               /\ nxt' = [nxt EXCEPT ![t] = "agent"]
               /\ ints' = [ints EXCEPT ![t] = {}]
               /\ ckpts' = [ckpts EXCEPT ![t] = @ + 1]
               /\ cstreak' = [cstreak EXCEPT ![t] = <<>>]
    /\ UNCHANGED <<bodyRuns, nextIid, pending>>
    /\ ChatFrame

\* Whether Command(resume=...) reaches the interrupt the thread is paused at:
\* a bare resume does; a resume addressed to an interrupt id reaches only it.
ResumeAnswers(t, iid) == nxt[t] = "tools" /\ (iid = NoId \/ iid \in ints[t])

\* A faulty variant of the reply without a thread: the error is followed by
\* the notice that the interrupt was resumed.
NoActiveThreadReplyResumed(iid) == << Ws("error"), [Ws("interrupt_resumed") EXCEPT !.iid = iid] >>

\* handle_resume_interrupt_action, "if not thread_id": the error event sent
\* before the handler returns.
NoActiveThreadReply(iid) == << Ws("error") >>

\* handle_resume_interrupt_action up to the start of the resumed stream.
ResumeInterrupt(iid, resp) ==
    /\ Receiving
    /\ reqCount' = reqCount + 1
    /\ IF connThread = NoThread
       THEN /\ sent' = NoActiveThreadReply(iid)
            /\ req' = [IdleReq EXCEPT !.op = "resume", !.phase = "done", !.iid = iid]
            /\ UNCHANGED <<pending, cstreak>>
       ELSE /\ pending' = pending \ {iid}
            /\ sent' = << [Ws("interrupt_resumed") EXCEPT !.iid = iid] >>
            /\ req' = [IdleReq EXCEPT !.op = "resume", !.phase = "stream",
                                      !.tid = connThread, !.iid = iid, !.resp = resp,
                                      !.paused = ints[connThread],
                                      !.answer = ResumeAnswers(connThread, iid),
                                      !.node = IF nxt[connThread] = "none" THEN "end"
                                               ELSE nxt[connThread]]
            /\ cstreak' = [cstreak EXCEPT ![connThread] = <<>>]
    /\ UNCHANGED <<msgs, nxt, ints, ckpts, bodyRuns, nextIid, connThread>>
    /\ ChatFrame

\* handle_cancel_interrupt_action with ChatService/ChatRunner.cancel_interrupt.
CancelInterrupt(t, iid, eng) ==
    /\ Receiving
    /\ (t = NoThread \/ nxt[t] # "agent") => eng = "cleared"
    /\ reqCount' = reqCount + 1
    /\ IF t = NoThread
       THEN /\ sent' = << Ws("error") >>
            /\ req' = [IdleReq EXCEPT !.op = "cancel", !.phase = "done", !.iid = iid,
                                      !.status = "invalid"]
            /\ UNCHANGED <<msgs, nxt, ints, ckpts, pending, cstreak>>
       ELSE /\ ~NothingPending(t) => Len(msgs[t]) < MaxMsgs
            /\ IF NothingPending(t) \/ eng = "raised"
               THEN UNCHANGED <<msgs, nxt, ints, ckpts>>
               ELSE LET m == add_messages(msgs[t], CancelMessages(t)) IN
                    /\ msgs' = [msgs EXCEPT ![t] = m]
                    /\ nxt' = [nxt EXCEPT ![t] = UpdatedNext(t, m, eng)]
                    /\ ints' = [ints EXCEPT ![t] = {}]
                    /\ ckpts' = [ckpts EXCEPT ![t] = @ + 1]
            /\ pending' = pending \ {iid}
            /\ sent' = IF CancelStatus(t, eng) = "cancelled"
                       THEN << [Ws("interrupt_cancelled") EXCEPT !.iid = iid] >>
                       ELSE << Ws("error") >>
            /\ req' = [IdleReq EXCEPT !.op = "cancel", !.phase = "done", !.tid = t,
                                      !.iid = iid, !.status = CancelStatus(t, eng),
                                      !.paused = ints[t]]
            /\ cstreak' = [cstreak EXCEPT ![t] =
                             Append(@, [status |-> CancelStatus(t, eng), hadInt |-> ints[t] # {}])]
    /\ UNCHANGED <<bodyRuns, nextIid, connThread>>
    /\ ChatFrame

\* ChatRunner.run: the status returned with the result of graph.ainvoke.
RunStatus(interrupted) == "completed"

\* WorkflowRunner.run_workflow: the status depends on "__interrupt__" in result.
WorkflowStatus(interrupted) == IF interrupted THEN "interrupted" ELSE "completed"

\* A run without streaming, as one call of graph.ainvoke on the input
\* {"messages": [human]}: ChatService.send_message over ChatRunner.run
\* (via = "run") or WorkflowRunner.run_workflow (via = "run_workflow").  The
\* model call raises, answers finally, or asks for the approval-wrapped tool,
\* at whose interrupt the run pauses.  ChatService.send_message accepts the
\* result when its last message is an assistant message.
RunMessage(t, via, outcome) ==
    /\ Receiving
    /\ Len(msgs[t]) + 2 <= MaxMsgs
    /\ reqCount' = reqCount + 1
    /\ LET withInput   == add_messages(msgs[t], << HumanMessage >>)
           c           == IF outcome = "call" THEN 1 ELSE 0
           m           == IF outcome = "raise" THEN withInput
                          ELSE add_messages(withInput, << AIMessage(c) >>)
           interrupted == outcome = "call"
       IN  /\ msgs' = [msgs EXCEPT ![t] = m]
           /\ nxt' = [nxt EXCEPT ![t] = IF outcome = "raise" THEN "agent"
                                        ELSE NextAfterAgent(m)]
           /\ ints' = [ints EXCEPT ![t] = IF interrupted THEN {nextIid} ELSE {}]
           /\ nextIid' = IF interrupted THEN nextIid + 1 ELSE nextIid
           /\ ckpts' = [ckpts EXCEPT ![t] = @ + (IF outcome = "raise" THEN 1
                                                 ELSE IF interrupted THEN 3 ELSE 2)]
           /\ req' = [IdleReq EXCEPT !.op = via, !.phase = "done", !.tid = t,
                                     !.raised = (outcome = "raise"),
                                     !.status = IF outcome = "raise" THEN ""
                                                ELSE IF via = "run" THEN RunStatus(interrupted)
                                                ELSE WorkflowStatus(interrupted)]
    /\ sent' = <<>>
    /\ cstreak' = [cstreak EXCEPT ![t] = <<>>]
    /\ UNCHANGED <<bodyRuns, connThread, pending>>
    /\ ChatFrame

-----------------------------------------------------------------------------
(* The streamed run: one action per step of the engine, with the events of
   the step carried through runner, service and handler to the client *)

Streaming == req.phase = "stream"

\* The runner generator serving the request: ChatService.stream_message
\* iterates ChatRunner.stream; ChatService.resume_interrupt iterates
\* ChatRunner.resume_interrupt.
RunnerEvents(cs) ==
    IF req.op = "send" THEN LegacyEvents(cs) ELSE ResumeEvents(cs)

\* The event an exception in the run turns into: ChatRunner.stream lets it
\* pass to ChatService.stream_message; ChatRunner.resume_interrupt catches it.
ExceptionEvent == IF req.op = "send" THEN ServiceErrorEvent ELSE RunnerErrorEvent

\* Deliver the events of one step; nd is the position of the run afterwards.
\* An exception raised while an event is handled reaches the handler's own
\* except clause, which sends an error event and ends the request.
Deliver(es, nd, raised) ==
    LET h == HandleAll(es, req.op = "resume") IN
    /\ pending' = pending \cup h.add
    /\ IF h.raises
       THEN /\ sent' = sent \o h.out \o << Ws("error") >>
            /\ req' = [req EXCEPT !.phase = "done", !.node = "end", !.raised = TRUE,
                                  !.answer = FALSE]
       ELSE /\ sent' = sent \o h.out
            /\ req' = [req EXCEPT !.node = nd, !.raised = raised, !.answer = FALSE]

\* The "agent" node: call_llm.  The model call streams a token chunk, then
\* either raises or returns an assistant message with or without tool calls.
StepAgent(outcome, tok) ==
    /\ Streaming /\ req.node = "agent"
    /\ LET t == req.tid IN
       IF outcome = "raise"
       THEN /\ Deliver(RunnerEvents(<< MessagesChunk(tok) >>) \o << ExceptionEvent >>,
                       "end", TRUE)
            /\ UNCHANGED <<msgs, nxt, ints, ckpts>>
       ELSE LET c == IF outcome = "call" THEN 1 ELSE 0
                m == add_messages(msgs[t], << AIMessage(c) >>)
            IN  /\ Len(msgs[t]) + 1 + 2 * c <= MaxMsgs
                /\ msgs' = [msgs EXCEPT ![t] = m]
                /\ nxt' = [nxt EXCEPT ![t] = NextAfterAgent(m)]
                /\ ints' = [ints EXCEPT ![t] = {}]
                /\ ckpts' = [ckpts EXCEPT ![t] = @ + 1]
                /\ Deliver(RunnerEvents(<< MessagesChunk(tok), ValuesChunk >>),
                           IF should_continue(m) = "tools" THEN "tools" ELSE "end", FALSE)
    /\ UNCHANGED <<bodyRuns, nextIid, connThread, reqCount, cstreak>>
    /\ ChatFrame

\* require_approval: the wrapped tool body runs only on "approve"
\* (the responses modelled carry an action of approve or deny).
BodyRuns(resp) == resp = "approve"

\* The "tools" node: the approval wrapper calls interrupt(payload).  Without
\* a resume value for it the run pauses there; with one the tool finishes
\* and its tool message is written.
StepTools ==
    /\ Streaming /\ req.node = "tools"
    /\ LET t == req.tid IN
       IF req.answer
       THEN /\ msgs' = [msgs EXCEPT ![t] = add_messages(@, << ToolMessage >>)]
            /\ nxt' = [nxt EXCEPT ![t] = "agent"]
            /\ ints' = [ints EXCEPT ![t] = {}]
            /\ ckpts' = [ckpts EXCEPT ![t] = @ + 1]
            /\ bodyRuns' = [bodyRuns EXCEPT ![t] = IF BodyRuns(req.resp) THEN @ + 1 ELSE @]
            /\ Deliver(RunnerEvents(<< ValuesChunk >>), "agent", FALSE)
            /\ UNCHANGED nextIid
       ELSE LET id == IF ints[t] # {} THEN CHOOSE i \in ints[t] : TRUE ELSE nextIid IN
            /\ ints' = [ints EXCEPT ![t] = {id}]
            /\ nextIid' = IF ints[t] # {} THEN nextIid ELSE nextIid + 1
            /\ ckpts' = [ckpts EXCEPT ![t] = @ + 1]
            /\ Deliver(RunnerEvents(<< InterruptChunk(<< Interrupt(id) >>) >>), "end", FALSE)
            /\ UNCHANGED <<msgs, nxt, bodyRuns>>
    /\ UNCHANGED <<connThread, reqCount, cstreak>>
    /\ ChatFrame

\* The test after the stream: "if not ...['pending_interrupts']".
CompleteAllowed == pending = {}

\* The end of the stream in handle_send_message_action and
\* handle_resume_interrupt_action: message_complete unless interrupts are recorded.
EndStream ==
    /\ Streaming /\ req.node = "end"
    /\ sent' = IF CompleteAllowed THEN Append(sent, Ws("message_complete")) ELSE sent
    /\ req' = [req EXCEPT !.phase = "done"]
    /\ UNCHANGED <<msgs, nxt, ints, ckpts, bodyRuns, nextIid, connThread, pending,
                   reqCount, cstreak>>
    /\ ChatFrame

-----------------------------------------------------------------------------
(* Specifications *)

StreamIdle == sMode = "idle" /\ sOut = <<>> /\ sFed = <<>>
\* No agent graph is built or run.
RouterIdle ==
    /\ rCfg = [before_agent |-> 0, before_model |-> 0, after_model |-> 0, after_agent |-> 0,
               jumper |-> "none", can |-> {}, tool_node |-> "none", response_format |-> "none"]
    /\ rState = [jump_to |-> "none", ai |-> "none", client |-> FALSE, direct |-> FALSE,
                 pending |-> FALSE, structured_msg |-> FALSE, structured_response |-> FALSE]
    /\ rAt = <<"none", 0>>
    /\ rRet = {}

\* No graph is under construction.
BuildIdle ==
    /\ bMiddleware = <<>>
    /\ bToolNode = FALSE
    /\ bPhase = "idle"
    /\ bTodo = <<>>
    /\ bNodes = <<>>

\* No wrapper chain is composed or called.
ChainIdle ==
    /\ hComposer = "none"
    /\ hHandlers = <<>>
    /\ hStack = <<>>
    /\ hLog = <<>>
    /\ hResult = "none"

\* No model call is in progress.
ExecuteIdle ==
    /\ eRequest = [response_format |-> [strategy |-> "none", handle_errors |->
                       [kind |-> "bool", on |-> TRUE, matches |-> {}]],
                   supports_provider |-> FALSE, unknown_tools |-> FALSE, declared |-> FALSE]
    /\ ePhase = "idle"
    /\ eBound = [status |-> "none", binding |-> "none", effective |->
                    [strategy |-> "none", handle_errors |->
                        [kind |-> "bool", on |-> TRUE, matches |-> {}]]]
    /\ eOutput = [tool_calls |-> <<>>, valid |-> FALSE, parses |-> FALSE]
    /\ eHandled = [status |-> "none", messages |-> <<>>, structured_response |-> FALSE,
                   failure |-> "none", decoded_with |->
                    [strategy |-> "none", handle_errors |->
                        [kind |-> "bool", on |-> TRUE, matches |-> {}]]]

\* No tool call touches the virtual filesystem.
FilesIdle ==
    /\ fLimit = 0
    /\ fFiles = [p \in {} |-> <<>>]
    /\ fTurn = <<>>
    /\ fPhase = "off"
    /\ fTurns = 0

\* No task tool call is made.
TaskIdle ==
    /\ tParent = [k \in {} |-> <<>>]
    /\ tGeneral = FALSE
    /\ tCall = [prompt |-> "none", subagent_type |-> "none"]
    /\ tChild = [k \in {} |-> <<>>]
    /\ tSteps = 0
    /\ tPhase = "off"

\* No schema is resolved.
SchemaIdle ==
    /\ gSchemas = {}
    /\ gPass = "off"
    /\ gTodo = {}
    /\ gAll = [f \in {} |-> <<>>]
    /\ gResolved = [p \in {} |-> <<>>]

\* No run is counted.
RunIdle ==
    /\ pCfg = [tool_node |-> "none"]
    /\ pState = [jump_to |-> "none"]
    /\ pAt = <<"none", 0>>
    /\ pSteps = 0
    /\ pPhase = "off"

\* No approval-wrapped tool is called.
ApprovalIdle ==
    /\ aArgs = "none"
    /\ aPhase = "off"
    /\ aResp = [kind |-> "none"]
    /\ aExec = <<>>
    /\ aResult = "none"
    /\ aCalls = 0

ChatInit ==
    /\ msgs = [t \in Threads |-> <<>>]
    /\ nxt = [t \in Threads |-> "none"]
    /\ ints = [t \in Threads |-> {}]
    /\ ckpts = [t \in Threads |-> 0]
    /\ bodyRuns = [t \in Threads |-> 0]
    /\ nextIid = 1
    /\ connThread = NoThread
    /\ pending = {}
    /\ req = IdleReq
    /\ sent = <<>>
    /\ reqCount = 0
    /\ cstreak = [t \in Threads |-> <<>>]

ChatNext ==
    \/ \E given \in Threads \cup {NoThread}, bad \in BOOLEAN : SendMessage(given, bad)
    \/ \E iid \in KnownIds, resp \in Responses : ResumeInterrupt(iid, resp)
    \/ \E t \in Threads \cup {NoThread}, iid \in KnownIds, eng \in EngineOutcomes :
            CancelInterrupt(t, iid, eng)
    \/ \E t \in Threads, via \in {"run", "run_workflow"}, outcome \in {"raise", "final", "call"} :
            RunMessage(t, via, outcome)
    \/ \E outcome \in {"raise", "final", "call"}, tok \in BOOLEAN : StepAgent(outcome, tok)
    \/ StepTools
    \/ EndStream

InitChat == ChatInit /\ StreamIdle /\ RouterIdle /\ BuildIdle /\ ChainIdle /\ ExecuteIdle /\ FilesIdle /\ TaskIdle /\ SchemaIdle /\ RunIdle /\ ApprovalIdle

SpecChat == InitChat /\ [][ChatNext]_vars

-----------------------------------------------------------------------------
(* Retrying: ChatRunner.retry_message and ChatService.retry_message over   *)
(* threads written by non-streamed runs (SpecRetry)                         *)

\* A run of the graph from the "agent" node on the transcript base, after
\* writes checkpoints were already written by the caller's input or update.
AgentRun(t, base, outcome, writes) ==
    LET c           == IF outcome = "call" THEN 1 ELSE 0
        m           == IF outcome = "raise" THEN base
                       ELSE add_messages(base, << AIMessage(c) >>)
        interrupted == outcome = "call"
    IN  /\ Len(base) + 1 <= MaxMsgs
        /\ msgs' = [msgs EXCEPT ![t] = m]
        /\ nxt' = [nxt EXCEPT ![t] = IF outcome = "raise" THEN "agent" ELSE NextAfterAgent(m)]
        /\ ints' = [ints EXCEPT ![t] = IF interrupted THEN {nextIid} ELSE {}]
        /\ nextIid' = IF interrupted THEN nextIid + 1 ELSE nextIid
        /\ ckpts' = [ckpts EXCEPT ![t] = @ + writes + (IF outcome = "raise" THEN 0
                                                       ELSE IF interrupted THEN 2 ELSE 1)]

\* WorkflowRunner.resume_workflow: graph.ainvoke(Command(resume=...)) on a
\* thread paused at the approval interrupt; the tool answers and the model is
\* called on the result.
ResumeWorkflow(t, resp, outcome) ==
    /\ Receiving
    /\ nxt[t] = "tools" /\ ints[t] # {}
    /\ Len(msgs[t]) + 2 <= MaxMsgs
    /\ reqCount' = reqCount + 1
    /\ AgentRun(t, add_messages(msgs[t], << ToolMessage >>), outcome, 1)
    /\ bodyRuns' = [bodyRuns EXCEPT ![t] = IF BodyRuns(resp) THEN @ + 1 ELSE @]
    /\ req' = [IdleReq EXCEPT !.op = "resume_workflow", !.phase = "done", !.tid = t,
                              !.resp = resp, !.paused = ints[t],
                              !.raised = (outcome = "raise"),
                              !.status = IF outcome = "raise" THEN ""
                                         ELSE WorkflowStatus(outcome = "call")]
    /\ sent' = <<>>
    /\ cstreak' = [cstreak EXCEPT ![t] = <<>>]
    /\ UNCHANGED <<connThread, pending>>
    /\ ChatFrame

\* ChatRunner.retry_message: the message list handed to graph.ainvoke, the
\* history without a trailing assistant message.
RetryInput(messages) ==
    IF messages[Len(messages)].type = "ai"
    THEN SubSeq(messages, 1, Len(messages) - 1)
    ELSE messages

\* ChatRunner.retry_message (latest checkpoint): the input {"messages": ...}
\* goes through the add_messages reducer of AgentState into the thread's
\* state, then the graph runs from "agent".
RetryMessage(t, outcome) ==
    /\ Receiving
    /\ reqCount' = reqCount + 1
    /\ IF msgs[t] = <<>>
       THEN /\ req' = [IdleReq EXCEPT !.op = "retry", !.phase = "done", !.tid = t,
                                      !.status = "error"]
            /\ UNCHANGED <<msgs, nxt, ints, nextIid, ckpts>>
       ELSE /\ AgentRun(t, add_messages(msgs[t], RetryInput(msgs[t])), outcome, 1)
            /\ req' = [IdleReq EXCEPT !.op = "retry", !.phase = "done", !.tid = t,
                                      !.raised = (outcome = "raise"),
                                      !.status = IF outcome = "raise" THEN "" ELSE "completed"]
    /\ sent' = <<>>
    /\ cstreak' = [cstreak EXCEPT ![t] = <<>>]
    /\ UNCHANGED <<bodyRuns, connThread, pending>>
    /\ ChatFrame

\* The ids of the messages after position index.
IdsAfter(messages, index) == {messages[i].id : i \in (index + 1)..Len(messages)}

\* add_messages applied to RemoveMessage entries: the messages with these ids
\* leave the list.
RECURSIVE remove_messages(_, _)
remove_messages(messages, ids) ==
    IF messages = <<>> THEN <<>>
    ELSE (IF Head(messages).id \in ids THEN <<>> ELSE << Head(messages) >>)
             \o remove_messages(Tail(messages), ids)

\* A faulty variant of the update that removes nothing.
retry_update_keeps_following(messages, index, modified) ==
    add_messages(messages,
                 IF modified
                 THEN << [messages[index] EXCEPT !.content = "modified", !.calls = 0] >>
                 ELSE <<>>)

\* ChatService.retry_message: the transcript after aupdate_state with
\* messages_to_update = [the target rebuilt with the new content and the same
\* id, if modified] + [RemoveMessage(id) for every message after the target].
retry_update(messages, index, modified) ==
    remove_messages(add_messages(messages,
                                 IF modified
                                 THEN << [messages[index] EXCEPT !.content = "modified",
                                                                  !.calls = 0] >>
                                 ELSE <<>>),
                    IdsAfter(messages, index))

\* ChatService.retry_message(thread_id, message_id, modified_content), where
\* message_id is the id of the message at position index, or (index = 0) an
\* id the thread does not have.  The ValueErrors are raised before any write.
RetryFromMessage(t, index, modified, outcome) ==
    /\ Receiving
    /\ index \in 0..Len(msgs[t])
    /\ reqCount' = reqCount + 1
    /\ IF \/ msgs[t] = <<>>
          \/ index = 0
          \/ modified /\ msgs[t][index].type \notin {"human", "ai"}
       THEN /\ req' = [IdleReq EXCEPT !.op = "retry_from", !.phase = "done", !.tid = t,
                                      !.modified = modified, !.raised = TRUE,
                                      !.status = "invalid"]
            /\ UNCHANGED <<msgs, nxt, ints, nextIid, ckpts>>
       ELSE /\ AgentRun(t, retry_update(msgs[t], index, modified), outcome, 1)
            /\ req' = [IdleReq EXCEPT !.op = "retry_from", !.phase = "done", !.tid = t,
                                      !.target = msgs[t][index].id, !.modified = modified,
                                      !.raised = (outcome = "raise"),
                                      !.status = IF outcome = "raise" THEN "" ELSE "completed"]
    /\ sent' = <<>>
    /\ cstreak' = [cstreak EXCEPT ![t] = <<>>]
    /\ UNCHANGED <<bodyRuns, connThread, pending>>
    /\ ChatFrame

RunOutcomes == {"raise", "final", "call"}

RetryNext ==
    \/ \E t \in Threads, outcome \in RunOutcomes : RunMessage(t, "run", outcome)
    \/ \E t \in Threads, resp \in Responses, outcome \in RunOutcomes :
            ResumeWorkflow(t, resp, outcome)
    \/ \E t \in Threads, outcome \in RunOutcomes : RetryMessage(t, outcome)
    \/ \E t \in Threads, index \in 0..MaxMsgs, modified \in BOOLEAN, outcome \in RunOutcomes :
            RetryFromMessage(t, index, modified, outcome)

InitRetry == ChatInit /\ StreamIdle /\ RouterIdle /\ BuildIdle /\ ChainIdle /\ ExecuteIdle /\ FilesIdle /\ TaskIdle /\ SchemaIdle /\ RunIdle /\ ApprovalIdle

SpecRetry == InitRetry /\ [][RetryNext]_vars

-----------------------------------------------------------------------------
(* The streaming generators fed chunk by chunk (SpecStream) *)

\* The chunks graph.astream can hand to the loop on its three channels.
InterruptSeq(k) == [i \in 1..k |-> Interrupt(i)]

Chunks ==
    {MessagesChunk(TRUE), MessagesChunk(FALSE), ValuesChunk, CustomChunk}
        \cup {InterruptChunk(InterruptSeq(k)) : k \in 0..MaxInterrupts}

StreamFrame == UNCHANGED <<chatVars, routerVars, buildVars, chainVars, executeVars, filesVars, taskVars, schemaVars, runVars, approvalVars>>

\* The events yielded for chunk number j, each marked with j.
Marked(es, j) == [i \in 1..Len(es) |-> [ev |-> es[i], src |-> j]]

\* A call of ChatRunner.unified_stream or ChatRunner.resume_interrupt.
StartStream(mode) ==
    /\ sMode = "idle"
    /\ sMode' = mode
    /\ UNCHANGED <<sOut, sFed>>
    /\ StreamFrame

\* One iteration of "async for event_type, chunk in self.graph.astream(...)".
FeedChunk(c) ==
    /\ sMode \in {"unified", "resume"}
    /\ Len(sFed) < MaxChunks
    /\ sFed' = Append(sFed, c)
    /\ sOut' = sOut \o Marked(IF sMode = "unified" THEN UnifiedChunkEvents(c)
                                                   ELSE ResumeChunkEvents(c),
                              Len(sFed) + 1)
    /\ UNCHANGED sMode
    /\ StreamFrame

\* astream raises: "except Exception as e: yield {type: error, ...}".
StreamRaises ==
    /\ sMode \in {"unified", "resume"}
    /\ sOut' = sOut \o Marked(<< RunnerErrorEvent >>, 0)
    /\ sMode' = IF sMode = "unified" THEN "unified_failed" ELSE "resume_failed"
    /\ UNCHANGED sFed
    /\ StreamFrame

\* astream is exhausted: the generator returns.
StreamEnds ==
    /\ sMode \in {"unified", "resume"}
    /\ sMode' = IF sMode = "unified" THEN "unified_closed" ELSE "resume_closed"
    /\ UNCHANGED <<sOut, sFed>>
    /\ StreamFrame

StreamNext ==
    \/ \E mode \in {"unified", "resume"} : StartStream(mode)
    \/ \E c \in Chunks : FeedChunk(c)
    \/ StreamRaises
    \/ StreamEnds

InitStream == ChatInit /\ StreamIdle /\ RouterIdle /\ BuildIdle /\ ChainIdle /\ ExecuteIdle /\ FilesIdle /\ TaskIdle /\ SchemaIdle /\ RunIdle /\ ApprovalIdle

SpecStream == InitStream /\ [][StreamNext]_vars

-----------------------------------------------------------------------------
(* The agent graph built by the factory and its routing (SpecRouter) *)

Hooks      == {"before_agent", "before_model", "after_model", "after_agent"}
Directives == {"model", "end", "tools"}

\* Node names: "{middleware.name}.{hook}" is the i-th middleware of a bucket.
HookNode(hook, i) == <<hook, i>>
ModelNode == <<"model", 0>>
ToolsNode == <<"tools", 0>>
START     == <<"__start__", 0>>
END       == <<"__end__", 0>>
NoNode    == <<"none", 0>>
RaisedAt  == <<"raised", 0>>

\* A configuration given to create_agent_impl: the size of each hook bucket,
\* the capability lists of the hooks, the tool node and the response format.
Configs ==
    {c \in [before_agent : 0..MaxMiddleware, before_model : 0..MaxMiddleware,
            after_model : 0..MaxMiddleware, after_agent : 0..MaxMiddleware,
            jumper : Hooks \cup {"none"}, can : SUBSET Directives,
            tool_node : {"none", "plain", "return_direct"},
            response_format : {"none", "tool", "provider"}] :
        /\ (c.jumper = "none") = (c.can = {})
        /\ c.jumper # "none" => c[c.jumper] > 0
        /\ "tools" \in c.can => c.tool_node # "none"}

\* get_can_jump_to(middleware, hook): the capability list declared on the hook.
get_can_jump_to(c, hook) == IF c.jumper = hook THEN c.can ELSE {}

\* create_structured_output_tools: bindings exist for the tool strategy only.
structured_output_tools(c) == c.response_format = "tool"

\* A faulty variant of determine_routing_nodes: the exit is the first
\* after_agent node.
determine_routing_nodes_exit_first(c) ==
    [entry_node |->
        IF c.before_agent > 0 THEN HookNode("before_agent", 1)
        ELSE IF c.before_model > 0 THEN HookNode("before_model", 1)
        ELSE ModelNode,
     loop_entry_node |->
        IF c.before_model > 0 THEN HookNode("before_model", 1) ELSE ModelNode,
     loop_exit_node |->
        IF c.after_model > 0 THEN HookNode("after_model", 1) ELSE ModelNode,
     exit_node |->
        IF c.after_agent > 0 THEN HookNode("after_agent", 1) ELSE END]

\* determine_routing_nodes: the four structural anchors.
determine_routing_nodes(c) ==
    [entry_node |->
        IF c.before_agent > 0 THEN HookNode("before_agent", 1)
        ELSE IF c.before_model > 0 THEN HookNode("before_model", 1)
        ELSE ModelNode,
     loop_entry_node |->
        IF c.before_model > 0 THEN HookNode("before_model", 1) ELSE ModelNode,
     loop_exit_node |->
        IF c.after_model > 0 THEN HookNode("after_model", 1) ELSE ModelNode,
     exit_node |->
        IF c.after_agent > 0 THEN HookNode("after_agent", c.after_agent) ELSE END]

loop_entry_node(c) == determine_routing_nodes(c).loop_entry_node
loop_exit_node(c)  == determine_routing_nodes(c).loop_exit_node
exit_node(c)       == determine_routing_nodes(c).exit_node

\* The slice of the graph state the routing functions read.
GraphState ==
    [jump_to : Directives \cup {"none"},
     ai : {"none", "final", "calls"},   \* the last AIMessage: absent, no tool calls, tool calls
     client : BOOLEAN,                  \* it calls tools of the tool node
     direct : BOOLEAN,                  \* every such tool is return_direct
     pending : BOOLEAN,                 \* some call is unanswered and not a structured-output call
     structured_msg : BOOLEAN,          \* a ToolMessage of a structured-output tool follows it
     structured_response : BOOLEAN]     \* "structured_response" in state

InputState ==
    [jump_to |-> "none", ai |-> "none", client |-> FALSE, direct |-> FALSE,
     pending |-> FALSE, structured_msg |-> FALSE, structured_response |-> FALSE]

\* A faulty variant of resolve_jump: "model" and "end" are exchanged.
resolve_jump_exchanged(jump_to, model_destination, end_destination) ==
    CASE jump_to = "model" -> end_destination
      [] jump_to = "end"   -> model_destination
      [] jump_to = "tools" -> ToolsNode
      [] OTHER             -> NoNode

\* _resolve_jump: the destination of a directive, None when it is not one.
resolve_jump(jump_to, model_destination, end_destination) ==
    CASE jump_to = "model" -> model_destination
      [] jump_to = "end"   -> end_destination
      [] jump_to = "tools" -> ToolsNode
      [] OTHER             -> NoNode

\* A faulty variant of model_to_tools: an assistant message without tool
\* calls no longer ends the loop.
model_to_tools_without_exit(state, model_destination, end_destination) ==
    IF state.jump_to # "none"
    THEN {resolve_jump(state.jump_to, model_destination, end_destination)}
    ELSE IF state.pending THEN {ToolsNode}
    ELSE IF state.structured_response THEN {end_destination}
    ELSE {model_destination}

\* model_to_tools: the set of nodes it returns (the targets of its Sends).
model_to_tools(state, model_destination, end_destination) ==
    IF state.jump_to # "none"
    THEN {resolve_jump(state.jump_to, model_destination, end_destination)}
    ELSE IF state.ai = "final" THEN {end_destination}
    ELSE IF state.pending THEN {ToolsNode}
    ELSE IF state.structured_response THEN {end_destination}
    ELSE {model_destination}

\* A faulty variant of tools_to_model: return_direct tools do not end the loop.
tools_to_model_without_return_direct(state, model_destination, end_destination) ==
    IF state.structured_msg THEN {end_destination}
    ELSE {model_destination}

\* tools_to_model.
tools_to_model(state, model_destination, end_destination) ==
    IF state.client /\ state.direct THEN {end_destination}
    ELSE IF state.structured_msg THEN {end_destination}
    ELSE {model_destination}

\* model_to_model.
model_to_model(state, model_destination, end_destination) ==
    IF state.jump_to # "none"
    THEN {resolve_jump(state.jump_to, model_destination, end_destination)}
    ELSE IF state.structured_response THEN {end_destination}
    ELSE {model_destination}

\* jump_edge: "_resolve_jump(...) or default_destination".
jump_edge(state, default_destination, model_destination, end_destination) ==
    LET r == resolve_jump(state.jump_to, model_destination, end_destination)
    IN  {IF r = NoNode THEN default_destination ELSE r}

\* add_middleware_edge: a conditional edge when the hook declares a
\* capability, a plain edge otherwise.
add_middleware_edge(c, name, default_destination, can_jump_to) ==
    IF can_jump_to # {}
    THEN [kind |-> "jump_edge", default |-> default_destination,
          destinations |->
              {default_destination}
                  \cup (IF "end" \in can_jump_to THEN {exit_node(c)} ELSE {})
                  \cup (IF "tools" \in can_jump_to THEN {ToolsNode} ELSE {})
                  \cup (IF "model" \in can_jump_to /\ name # loop_entry_node(c)
                        THEN {loop_entry_node(c)} ELSE {})]
    ELSE [kind |-> "add_edge", default |-> default_destination,
          destinations |-> {default_destination}]

PlainEdge(to) == [kind |-> "add_edge", default |-> to, destinations |-> {to}]

\* add_tool_edges: the destinations registered for the two tool-loop edges.
tools_to_model_destinations(c) ==
    {loop_entry_node(c)}
        \cup (IF c.tool_node = "return_direct" \/ structured_output_tools(c)
              THEN {exit_node(c)} ELSE {})

model_to_tools_destinations(c) ==
    {ToolsNode, exit_node(c)}
        \cup (IF c.response_format # "none" \/ loop_exit_node(c) # ModelNode
              THEN {loop_entry_node(c)} ELSE {})

\* The edge attached at loop_exit_node by create_agent_impl: add_tool_edges,
\* add_structured_output_edges or add_simple_edge.
LoopExitEdge(c) ==
    IF c.tool_node # "none"
    THEN [kind |-> "model_to_tools", default |-> NoNode,
          destinations |-> model_to_tools_destinations(c)]
    ELSE IF structured_output_tools(c)
    THEN [kind |-> "model_to_model", default |-> NoNode,
          destinations |-> {loop_entry_node(c), exit_node(c)}]
    ELSE IF loop_exit_node(c) = ModelNode
    THEN PlainEdge(exit_node(c))
    ELSE add_middleware_edge(c, HookNode("after_model", 1), exit_node(c),
                             get_can_jump_to(c, "after_model"))

\* A faulty variant of MiddlewareEdge: every after_agent node leads to END.
MiddlewareEdgeAfterAgentToEnd(c, hook, i) ==
    LET default ==
            CASE hook = "before_agent" ->
                    IF i < c.before_agent THEN HookNode(hook, i + 1) ELSE loop_entry_node(c)
              [] hook = "before_model" ->
                    IF i < c.before_model THEN HookNode(hook, i + 1) ELSE ModelNode
              [] hook = "after_model"  -> HookNode(hook, i - 1)
              [] hook = "after_agent"  -> END
    IN  add_middleware_edge(c, HookNode(hook, i), default, get_can_jump_to(c, hook))

\* add_middleware_edges: the edge leaving the i-th hook node of a bucket.
MiddlewareEdge(c, hook, i) ==
    LET default ==
            CASE hook = "before_agent" ->
                    IF i < c.before_agent THEN HookNode(hook, i + 1) ELSE loop_entry_node(c)
              [] hook = "before_model" ->
                    IF i < c.before_model THEN HookNode(hook, i + 1) ELSE ModelNode
              [] hook = "after_model"  -> HookNode(hook, i - 1)
              [] hook = "after_agent"  ->
                    IF i > 1 THEN HookNode(hook, i - 1) ELSE END
    IN  add_middleware_edge(c, HookNode(hook, i), default, get_can_jump_to(c, hook))

\* The edge leaving a node of the built graph.
EdgeAt(c, node) ==
    CASE node = START             -> PlainEdge(determine_routing_nodes(c).entry_node)
      [] node = ToolsNode         -> [kind |-> "tools_to_model", default |-> NoNode,
                                      destinations |-> tools_to_model_destinations(c)]
      [] node = loop_exit_node(c) -> LoopExitEdge(c)
      [] node = ModelNode         -> PlainEdge(HookNode("after_model", c.after_model))
      [] OTHER                    -> MiddlewareEdge(c, node[1], node[2])

\* What the routing function of an edge returns on a state.
EdgeReturns(c, e, state) ==
    CASE e.kind = "add_edge"       -> {e.default}
      [] e.kind = "jump_edge"      -> jump_edge(state, e.default, loop_entry_node(c), exit_node(c))
      [] e.kind = "model_to_tools" -> model_to_tools(state, loop_entry_node(c), exit_node(c))
      [] e.kind = "model_to_model" -> model_to_model(state, loop_entry_node(c), exit_node(c))
      [] e.kind = "tools_to_model" -> tools_to_model(state, loop_entry_node(c), exit_node(c))

RouterFrame == UNCHANGED <<chatVars, streamVars, buildVars, chainVars, executeVars, filesVars, taskVars, schemaVars, runVars, approvalVars>>

\* The engine follows the edge of the node that just ran: it looks each
\* returned name up in the registered destinations and fails on a miss.
Routed(node, state) ==
    LET e   == EdgeAt(rCfg, node)
        ret == EdgeReturns(rCfg, e, state)
    IN  /\ rRet' = IF e.kind = "add_edge" THEN {}
                   ELSE {[from |-> node, kind |-> e.kind, ret |-> ret,
                          destinations |-> e.destinations]}
        /\ rAt' = IF ret \subseteq e.destinations THEN CHOOSE n \in ret : TRUE ELSE RaisedAt

\* add_start_edge: START -> entry_node.
RouterStart ==
    /\ rAt = START
    /\ Routed(START, rState)
    /\ UNCHANGED <<rCfg, rState>>
    /\ RouterFrame

\* A hook node runs: it may write a directive it declares, and an after_model
\* hook may answer the pending tool calls with injected tool messages.
RunHook(jump_to, inject) ==
    /\ rAt[1] \in Hooks
    /\ jump_to \in {"none"} \cup get_can_jump_to(rCfg, rAt[1])
    /\ inject => (rAt[1] = "after_model" /\ rState.pending)
    /\ rState' = [rState EXCEPT !.jump_to = jump_to,
                                !.pending = IF inject THEN FALSE ELSE @]
    /\ Routed(rAt, rState')
    /\ UNCHANGED rCfg
    /\ RouterFrame

ModelOutcomes ==
    {"final", "calls", "calls_direct", "structured", "structured_retry",
     "both", "both_retry", "raise"}

\* model_node with handle_model_output: the messages and the structured
\* response it writes for each kind of model output.
ModelOutcomeAllowed(c, o) ==
    CASE o \in {"final"}                        -> TRUE
      [] o = "calls"                            -> c.tool_node # "none"
      [] o = "calls_direct"                     -> c.tool_node = "return_direct"
      [] o \in {"structured", "structured_retry"} -> structured_output_tools(c)
      [] o \in {"both", "both_retry"}           -> structured_output_tools(c) /\ c.tool_node # "none"
      [] o = "raise"                            -> c.response_format # "none"

ModelWrites(c, state, o) ==
    [jump_to |-> "none",
     ai |-> IF o = "final" THEN "final" ELSE "calls",
     client |-> o \in {"calls", "calls_direct", "both", "both_retry"},
     direct |-> o = "calls_direct",
     pending |-> o \in {"calls", "calls_direct", "both", "both_retry"},
     structured_msg |-> o \in {"structured", "structured_retry", "both", "both_retry"},
     structured_response |->
         \/ state.structured_response
         \/ o \in {"structured", "both"}
         \/ (o = "final" /\ c.response_format = "provider")]

RunModel(o) ==
    /\ rAt = ModelNode
    /\ ModelOutcomeAllowed(rCfg, o)
    /\ IF o = "raise"
       THEN /\ rAt' = RaisedAt
            /\ rRet' = {}
            /\ UNCHANGED rState
       ELSE /\ rState' = ModelWrites(rCfg, rState, o)
            /\ Routed(ModelNode, rState')
    /\ UNCHANGED rCfg
    /\ RouterFrame

\* The tools node answers the pending calls of the last AIMessage.
RunTools ==
    /\ rAt = ToolsNode
    /\ rState' = [rState EXCEPT !.jump_to = "none", !.pending = FALSE]
    /\ Routed(ToolsNode, rState')
    /\ UNCHANGED rCfg
    /\ RouterFrame

RouterInit ==
    /\ rCfg \in Configs
    /\ rState = InputState
    /\ rAt = START
    /\ rRet = {}

RouterNext ==
    \/ RouterStart
    \/ \E jump_to \in Directives \cup {"none"}, inject \in BOOLEAN : RunHook(jump_to, inject)
    \/ \E o \in ModelOutcomes : RunModel(o)
    \/ RunTools

InitRouter == ChatInit /\ StreamIdle /\ RouterInit /\ BuildIdle /\ ChainIdle /\ ExecuteIdle /\ FilesIdle /\ TaskIdle /\ SchemaIdle /\ RunIdle /\ ApprovalIdle

SpecRouter == InitRouter /\ [][RouterNext]_vars

\* The engine runs the next node as long as one is scheduled.
SpecRouterLive == SpecRouter /\ WF_vars(RouterNext)

-----------------------------------------------------------------------------
\* ---- Graph construction: create_agent_impl up to the compiled graph ----

MiddlewareNames == {"m1", "m2"}

\* A middleware: its name and the node hooks its class overrides.
Middleware == [name : MiddlewareNames, hooks : SUBSET Hooks]

MiddlewareLists == UNION {[1..n -> Middleware] : n \in 0..MaxMiddleware}

\* The node name f"{m.name}.{hook}".
MiddlewareNode(m, hook) == <<hook, m.name>>

\* A faulty variant of validate_middleware: every list is accepted.
validate_middleware_accepting(middleware) == TRUE

\* validate_middleware: TRUE when no two entries share a name.
validate_middleware(middleware) ==
    Cardinality({middleware[i].name : i \in DOMAIN middleware}) = Len(middleware)

\* The entries of a list that override a hook, in list order.
RECURSIVE WithHook(_, _)
WithHook(middleware, hook) ==
    IF middleware = <<>> THEN <<>>
    ELSE (IF hook \in Head(middleware).hooks THEN <<Head(middleware)>> ELSE <<>>)
             \o WithHook(Tail(middleware), hook)

\* collect_middleware_by_hook: the four node-hook buckets.
collect_middleware_by_hook(middleware) ==
    [hook \in Hooks |-> WithHook(middleware, hook)]

\* add_middleware_nodes: the list it iterates over.
all_middleware_to_add(middleware_by_hook) ==
    middleware_by_hook["before_agent"] \o middleware_by_hook["before_model"]
        \o middleware_by_hook["after_model"] \o middleware_by_hook["after_agent"]

\* The add_node calls of one iteration of add_middleware_nodes, in order.
NodesOfMiddleware(m) ==
    (IF "before_agent" \in m.hooks THEN <<MiddlewareNode(m, "before_agent")>> ELSE <<>>)
        \o (IF "before_model" \in m.hooks THEN <<MiddlewareNode(m, "before_model")>> ELSE <<>>)
        \o (IF "after_model" \in m.hooks THEN <<MiddlewareNode(m, "after_model")>> ELSE <<>>)
        \o (IF "after_agent" \in m.hooks THEN <<MiddlewareNode(m, "after_agent")>> ELSE <<>>)

Range(seq) == {seq[i] : i \in DOMAIN seq}

BuildFrame == UNCHANGED <<chatVars, streamVars, routerVars, chainVars, executeVars, filesVars, taskVars, schemaVars, runVars, approvalVars>>

\* Phase 5: validate_middleware raises on a repeated name.
ValidateMiddleware ==
    /\ bPhase = "start"
    /\ bPhase' = IF validate_middleware(bMiddleware) THEN "validated" ELSE "raised"
    /\ UNCHANGED <<bMiddleware, bToolNode, bTodo, bNodes>>
    /\ BuildFrame

\* Phase 7: add_model_node.
AddModelNode ==
    /\ bPhase = "validated"
    /\ bNodes' = Append(bNodes, ModelNode)
    /\ bPhase' = "model_added"
    /\ UNCHANGED <<bMiddleware, bToolNode, bTodo>>
    /\ BuildFrame

\* add_tool_node, then add_middleware_nodes up to the start of its loop.
AddToolNode ==
    /\ bPhase = "model_added"
    /\ bNodes' = IF bToolNode THEN Append(bNodes, ToolsNode) ELSE bNodes
    /\ bTodo' = all_middleware_to_add(collect_middleware_by_hook(bMiddleware))
    /\ bPhase' = "adding"
    /\ UNCHANGED <<bMiddleware, bToolNode>>
    /\ BuildFrame

\* One iteration of the loop of add_middleware_nodes: a node for every hook
\* the middleware overrides; StateGraph.add_node raises on a name the graph
\* already has.
AddMiddlewareNodes ==
    /\ bPhase = "adding"
    /\ bTodo # <<>>
    /\ LET names == NodesOfMiddleware(Head(bTodo))
       IN  IF Range(names) \cap Range(bNodes) # {}
           THEN /\ bPhase' = "raised"
                /\ UNCHANGED <<bTodo, bNodes>>
           ELSE /\ bNodes' = bNodes \o names
                /\ bTodo' = Tail(bTodo)
                /\ UNCHANGED bPhase
    /\ UNCHANGED <<bMiddleware, bToolNode>>
    /\ BuildFrame

\* Phases 8 to 10: the edges are added and the graph is compiled.
CompileGraph ==
    /\ bPhase = "adding"
    /\ bTodo = <<>>
    /\ bPhase' = "built"
    /\ UNCHANGED <<bMiddleware, bToolNode, bTodo, bNodes>>
    /\ BuildFrame

BuildInit ==
    /\ bMiddleware \in MiddlewareLists
    /\ bToolNode \in BOOLEAN
    /\ bPhase = "start"
    /\ bTodo = <<>>
    /\ bNodes = <<>>

BuildNext ==
    \/ ValidateMiddleware
    \/ AddModelNode
    \/ AddToolNode
    \/ AddMiddlewareNodes
    \/ CompileGraph

InitBuild == ChatInit /\ StreamIdle /\ RouterIdle /\ BuildInit /\ ChainIdle /\ ExecuteIdle /\ FilesIdle /\ TaskIdle /\ SchemaIdle /\ RunIdle /\ ApprovalIdle

SpecBuild == InitBuild /\ [][BuildNext]_vars

-----------------------------------------------------------------------------
\* ---- Wrapper chains: the four composers and a call of what they return ----

\* chain_model_call_handlers, chain_async_model_call_handlers,
\* chain_tool_call_wrappers, chain_async_tool_call_wrappers.
Composers == {"model", "amodel", "tool", "atool"}

\* The model-call composers pass every return value through
\* normalize_to_model_response; the tool-call composers pass it on as it is.
Normalizes(composer) == composer \in {"model", "amodel"}

\* What a wrapper or the leaf may return.
Returns(composer) ==
    IF Normalizes(composer) THEN {"AIMessage", "ModelResponse"} ELSE {"ToolMessage"}

LeafReturns(composer) == IF Normalizes(composer) THEN "ModelResponse" ELSE "ToolMessage"

\* A wrapper: how many times it calls its next and what it returns.
Wrappers(composer) == [calls : 0..MaxNextCalls, returns : Returns(composer)]

WrapperLists(composer) == UNION {[1..n -> Wrappers(composer)] : n \in 0..MaxWrappers}

\* A faulty variant of normalize_to_model_response: the value passes unchanged.
normalize_to_model_response_unchanged(result) == result

\* normalize_to_model_response.
normalize_to_model_response(result) ==
    IF result = "AIMessage" THEN "ModelResponse" ELSE result

\* The callables the composers build.
Wrapper(i) == [kind |-> "wrapper", w |-> i]

compose_two(outer, inner, normalize) ==
    [kind |-> "composed", outer |-> outer, inner |-> inner, normalize |-> normalize]

Normalized(of) == [kind |-> "normalized", of |-> of]

\* A faulty variant of Composition: the last wrapper becomes the outermost.
RECURSIVE CompositionLastOutermost(_, _, _)
CompositionLastOutermost(k, n, normalize) ==
    IF k = n THEN Wrapper(k)
    ELSE compose_two(Wrapper(n), CompositionLastOutermost(k, n - 1, normalize), normalize)

\* "result = handlers[-1]; for handler in reversed(handlers[:-1]): result =
\* compose_two(handler, result)", applied to handlers[k..n].
RECURSIVE Composition(_, _, _)
Composition(k, n, normalize) ==
    IF k = n THEN Wrapper(n)
    ELSE compose_two(Wrapper(k), Composition(k + 1, n, normalize), normalize)

\* What a composer returns for a wrapper list.
chain(composer, handlers) ==
    IF handlers = <<>> THEN [kind |-> "none"]
    ELSE IF Len(handlers) = 1
    THEN (IF Normalizes(composer) THEN Normalized(Wrapper(1)) ELSE Wrapper(1))
    ELSE IF Normalizes(composer)
    THEN Normalized(Composition(1, Len(handlers), TRUE))
    ELSE Composition(1, Len(handlers), FALSE)

\* The handler a wrapper is given as its next: the leaf executor, or the
\* inner_handler / call_inner closure of compose_two.
Leaf == [kind |-> "leaf"]

InnerHandler(inner, handler, normalize) ==
    [kind |-> "inner_handler", inner |-> inner, handler |-> handler, normalize |-> normalize]

\* Calling a callable with a handler enters one wrapper: the frame of that
\* wrapper, with the handler it is given and whether its return value is
\* normalized on the way back to the caller.
RECURSIVE Enter(_, _, _)
Enter(callable, handler, normalize) ==
    CASE callable.kind = "wrapper" ->
            [w |-> callable.w, handler |-> handler, calls |-> 0, normalize |-> normalize]
      [] callable.kind = "composed" ->
            Enter(callable.outer,
                  InnerHandler(callable.inner, handler, callable.normalize),
                  normalize \/ callable.normalize)
      [] callable.kind = "normalized" -> Enter(callable.of, handler, TRUE)

Event(ev, w, value) == [ev |-> ev, w |-> w, value |-> value]

ChainFrame == UNCHANGED <<chatVars, streamVars, routerVars, buildVars, executeVars, filesVars, taskVars, schemaVars, runVars, approvalVars>>

\* The model node or the tool node calls the composed handler with the leaf
\* executor.
CallComposed ==
    /\ hHandlers # <<>>
    /\ hLog = <<>>
    /\ LET f == Enter(chain(hComposer, hHandlers), Leaf, FALSE)
       IN  /\ hStack' = <<f>>
           /\ hLog' = <<Event("enter", f.w, "none")>>
    /\ UNCHANGED <<hComposer, hHandlers, hResult>>
    /\ ChainFrame

Top == hStack[Len(hStack)]

\* The wrapper at the top calls its next, which is a closure of compose_two:
\* the inner callable is called with the handler the closure holds.
CallInner ==
    /\ hStack # <<>>
    /\ Top.calls < hHandlers[Top.w].calls
    /\ Top.handler.kind = "inner_handler"
    /\ LET f == Enter(Top.handler.inner, Top.handler.handler, Top.handler.normalize)
       IN  /\ hStack' = Append([hStack EXCEPT ![Len(hStack)].calls = @ + 1], f)
           /\ hLog' = Append(hLog, Event("enter", f.w, "none"))
    /\ UNCHANGED <<hComposer, hHandlers, hResult>>
    /\ ChainFrame

\* The wrapper at the top calls its next, which is the leaf executor.
RunLeaf ==
    /\ hStack # <<>>
    /\ Top.calls < hHandlers[Top.w].calls
    /\ Top.handler.kind = "leaf"
    /\ hStack' = [hStack EXCEPT ![Len(hStack)].calls = @ + 1]
    /\ hLog' = Append(hLog, Event("leaf", 0, LeafReturns(hComposer)))
    /\ UNCHANGED <<hComposer, hHandlers, hResult>>
    /\ ChainFrame

\* The wrapper at the top returns; its caller, or the caller of the composed
\* handler, receives the value.
WrapperReturns ==
    /\ hStack # <<>>
    /\ Top.calls = hHandlers[Top.w].calls
    /\ LET value == IF Top.normalize
                    THEN normalize_to_model_response(hHandlers[Top.w].returns)
                    ELSE hHandlers[Top.w].returns
       IN  /\ hLog' = Append(hLog, Event("return", Top.w, value))
           /\ hResult' = IF Len(hStack) = 1 THEN value ELSE hResult
    /\ hStack' = SubSeq(hStack, 1, Len(hStack) - 1)
    /\ UNCHANGED <<hComposer, hHandlers>>
    /\ ChainFrame

ChainInit ==
    /\ hComposer \in Composers
    /\ hHandlers \in WrapperLists(hComposer)
    /\ hStack = <<>>
    /\ hLog = <<>>
    /\ hResult = "none"

ChainNext ==
    \/ CallComposed
    \/ CallInner
    \/ RunLeaf
    \/ WrapperReturns

InitChain == ChatInit /\ StreamIdle /\ RouterIdle /\ BuildIdle /\ ChainInit /\ ExecuteIdle /\ FilesIdle /\ TaskIdle /\ SchemaIdle /\ RunIdle /\ ApprovalIdle

SpecChain == InitChain /\ [][ChainNext]_vars

-----------------------------------------------------------------------------
(* The model executor: get_bound_model, the model call, handle_model_output *)
(* (SpecExecute)                                                            *)

\* The two structured-output failures (StructuredOutputValidationError,
\* MultipleStructuredOutputsError).
Failures == {"validation", "multiple"}

\* The values of ToolStrategy.handle_errors.  An exception type or a tuple of
\* types is represented by the failures isinstance() accepts for it.
HandleErrors ==
    [kind : {"bool"}, on : BOOLEAN, matches : {{}}]
        \cup [kind : {"str", "callable"}, on : {TRUE}, matches : {{}}]
        \cup [kind : {"type", "tuple"}, on : {TRUE}, matches : SUBSET Failures]

\* handle_errors of a ToolStrategy built without the argument.
DefaultHandleErrors == [kind |-> "bool", on |-> TRUE, matches |-> {}]

\* None, AutoStrategy, ProviderStrategy and ToolStrategy.
ResponseFormats ==
    [strategy : {"none", "auto", "provider"}, handle_errors : {DefaultHandleErrors}]
        \cup [strategy : {"tool"}, handle_errors : HandleErrors]

NoFormat == [strategy |-> "none", handle_errors |-> DefaultHandleErrors]

\* The ModelRequest an executor receives, with what get_bound_model finds out
\* about it: whether the model supports the provider strategy, whether a
\* requested client tool is unknown, whether the ToolStrategy's tools were
\* declared when the agent was created.
ModelRequests ==
    [response_format : ResponseFormats, supports_provider : BOOLEAN,
     unknown_tools : BOOLEAN, declared : BOOLEAN]

\* The tool calls of a model turn, in order; the id of a call is its position.
ToolCalls(structured) == [i \in DOMAIN structured |-> [id |-> i, structured |-> structured[i]]]

\* The model turns: the tool calls, whether the arguments of a structured call
\* validate, whether the content parses under the provider's schema.
ModelOutputs ==
    [tool_calls : {ToolCalls(s) : s \in UNION {[1..n -> BOOLEAN] : n \in 0..MaxToolCalls}},
     valid : BOOLEAN, parses : BOOLEAN]

\* A faulty variant of effective_response_format that leaves AutoStrategy as it is.
effective_response_format_unresolved(request) == request.response_format

\* The effective response format get_bound_model determines.
effective_response_format(request) ==
    IF request.response_format.strategy = "auto"
    THEN IF request.supports_provider
         THEN [strategy |-> "provider", handle_errors |-> DefaultHandleErrors]
         ELSE [strategy |-> "tool", handle_errors |-> DefaultHandleErrors]
    ELSE request.response_format

\* get_bound_model: how the model is bound and the format returned with it.
get_bound_model(request) ==
    LET effective == effective_response_format(request) IN
    IF request.unknown_tools
    THEN [status |-> "raised", binding |-> "none", effective |-> NoFormat]
    ELSE IF effective.strategy = "provider"
    THEN [status |-> "bound", binding |-> "provider", effective |-> effective]
    ELSE IF effective.strategy = "tool"
    THEN IF ~request.declared
         THEN [status |-> "raised", binding |-> "none", effective |-> NoFormat]
         ELSE [status |-> "bound", binding |-> "tool", effective |-> effective]
    ELSE [status |-> "bound", binding |-> "plain", effective |-> NoFormat]

\* A faulty variant of handle_structured_output_error that retries on every
\* exception type.
handle_structured_output_error_any_type(exception, response_format) ==
    LET handle_errors == response_format.handle_errors
        no  == [should_retry |-> FALSE, error_message |-> ""]
    IN
    IF response_format.strategy # "tool" THEN no
    ELSE IF handle_errors.kind = "bool"
    THEN IF handle_errors.on THEN [should_retry |-> TRUE, error_message |-> "template"] ELSE no
    ELSE IF handle_errors.kind = "str"
    THEN [should_retry |-> TRUE, error_message |-> "literal"]
    ELSE IF handle_errors.kind \in {"type", "tuple"}
    THEN [should_retry |-> TRUE, error_message |-> "template"]
    ELSE [should_retry |-> TRUE, error_message |-> "computed"]

\* handle_structured_output_error: whether to retry and with which message.
handle_structured_output_error(exception, response_format) ==
    LET handle_errors == response_format.handle_errors
        no  == [should_retry |-> FALSE, error_message |-> ""]
    IN
    IF response_format.strategy # "tool" THEN no
    ELSE IF handle_errors.kind = "bool"
    THEN IF handle_errors.on THEN [should_retry |-> TRUE, error_message |-> "template"] ELSE no
    ELSE IF handle_errors.kind = "str"
    THEN [should_retry |-> TRUE, error_message |-> "literal"]
    ELSE IF handle_errors.kind \in {"type", "tuple"}
    THEN IF exception \in handle_errors.matches
         THEN [should_retry |-> TRUE, error_message |-> "template"] ELSE no
    ELSE [should_retry |-> TRUE, error_message |-> "computed"]

OutputMessage == [type |-> "ai", tool_call_id |-> 0, content |-> "output"]

AnswerMessage(content, tool_call) == [type |-> "tool", tool_call_id |-> tool_call.id, content |-> content]

\* SelectSeq with a fixed test: the structured tool calls, in order.
RECURSIVE structured_tool_calls(_)
structured_tool_calls(tool_calls) ==
    IF tool_calls = <<>> THEN <<>>
    ELSE (IF Head(tool_calls).structured THEN <<Head(tool_calls)>> ELSE <<>>)
             \o structured_tool_calls(Tail(tool_calls))

Returned(messages, structured_response) ==
    [status |-> "returned", messages |-> messages,
     structured_response |-> structured_response, failure |-> "none"]

Raised(failure) ==
    [status |-> "raised", messages |-> <<>>, structured_response |-> FALSE, failure |-> failure]

\* A faulty variant of handle_model_output that answers only the first of
\* several structured tool calls.
handle_model_output_first_call(output, effective) ==
    LET calls == structured_tool_calls(output.tool_calls) IN
    IF effective.strategy = "provider"
    THEN IF output.tool_calls = <<>>
         THEN IF output.parses THEN Returned(<<OutputMessage>>, TRUE) ELSE Raised("validation")
         ELSE Returned(<<OutputMessage>>, FALSE)
    ELSE IF effective.strategy = "tool" /\ output.tool_calls # <<>> /\ calls # <<>>
    THEN IF Len(calls) > 1
         THEN LET r == handle_structured_output_error("multiple", effective) IN
              IF ~r.should_retry THEN Raised("multiple")
              ELSE Returned(<<OutputMessage, AnswerMessage(r.error_message, calls[1])>>, FALSE)
         ELSE IF output.valid
         THEN Returned(<<OutputMessage, AnswerMessage("structured_response", calls[1])>>, TRUE)
         ELSE LET r == handle_structured_output_error("validation", effective) IN
              IF ~r.should_retry THEN Raised("validation")
              ELSE Returned(<<OutputMessage, AnswerMessage(r.error_message, calls[1])>>, FALSE)
    ELSE Returned(<<OutputMessage>>, FALSE)

\* A faulty variant of handle_model_output that leaves out the structured
\* response of a valid structured tool call.
handle_model_output_without_response(output, effective) ==
    LET calls == structured_tool_calls(output.tool_calls) IN
    IF effective.strategy = "provider"
    THEN IF output.tool_calls = <<>>
         THEN IF output.parses THEN Returned(<<OutputMessage>>, TRUE) ELSE Raised("validation")
         ELSE Returned(<<OutputMessage>>, FALSE)
    ELSE IF effective.strategy = "tool" /\ output.tool_calls # <<>> /\ calls # <<>>
    THEN IF Len(calls) > 1
         THEN LET r == handle_structured_output_error("multiple", effective) IN
              IF ~r.should_retry THEN Raised("multiple")
              ELSE Returned(<<OutputMessage>> \o [i \in DOMAIN calls |->
                                AnswerMessage(r.error_message, calls[i])], FALSE)
         ELSE IF output.valid
         THEN Returned(<<OutputMessage, AnswerMessage("structured_response", calls[1])>>, FALSE)
         ELSE LET r == handle_structured_output_error("validation", effective) IN
              IF ~r.should_retry THEN Raised("validation")
              ELSE Returned(<<OutputMessage, AnswerMessage(r.error_message, calls[1])>>, FALSE)
    ELSE Returned(<<OutputMessage>>, FALSE)

\* handle_model_output: the state update made from a model turn, or the
\* failure raised.
handle_model_output(output, effective) ==
    LET calls == structured_tool_calls(output.tool_calls) IN
    IF effective.strategy = "provider"
    THEN IF output.tool_calls = <<>>
         THEN IF output.parses THEN Returned(<<OutputMessage>>, TRUE) ELSE Raised("validation")
         ELSE Returned(<<OutputMessage>>, FALSE)
    ELSE IF effective.strategy = "tool" /\ output.tool_calls # <<>> /\ calls # <<>>
    THEN IF Len(calls) > 1
         THEN LET r == handle_structured_output_error("multiple", effective) IN
              IF ~r.should_retry THEN Raised("multiple")
              ELSE Returned(<<OutputMessage>> \o [i \in DOMAIN calls |->
                                AnswerMessage(r.error_message, calls[i])], FALSE)
         ELSE IF output.valid
         THEN Returned(<<OutputMessage, AnswerMessage("structured_response", calls[1])>>, TRUE)
         ELSE LET r == handle_structured_output_error("validation", effective) IN
              IF ~r.should_retry THEN Raised("validation")
              ELSE Returned(<<OutputMessage, AnswerMessage(r.error_message, calls[1])>>, FALSE)
    ELSE Returned(<<OutputMessage>>, FALSE)

NotBound == [status |-> "none", binding |-> "none", effective |-> NoFormat]
NoOutput == [tool_calls |-> <<>>, valid |-> FALSE, parses |-> FALSE]
NotHandled == [status |-> "none", messages |-> <<>>, structured_response |-> FALSE,
               failure |-> "none", decoded_with |-> NoFormat]

ExecuteFrame == UNCHANGED <<chatVars, streamVars, routerVars, buildVars, chainVars, filesVars, taskVars, schemaVars, runVars, approvalVars>>

\* _execute_model_sync / _execute_model_async, first statement: bind the model.
BindModel ==
    /\ ePhase = "request"
    /\ eBound' = get_bound_model(eRequest)
    /\ ePhase' = IF eBound'.status = "raised" THEN "raised" ELSE "bound"
    /\ UNCHANGED <<eRequest, eOutput, eHandled>>
    /\ ExecuteFrame

\* model_.invoke(messages) / await model_.ainvoke(messages).
InvokeModel(output) ==
    /\ ePhase = "bound"
    /\ eOutput' = output
    /\ ePhase' = "invoked"
    /\ UNCHANGED <<eRequest, eBound, eHandled>>
    /\ ExecuteFrame

\* handle_model_output(output, effective_response_format, structured_output_tools)
\* and the ModelResponse built from it.
HandleModelOutput ==
    /\ ePhase = "invoked"
    /\ eHandled' = [decoded_with |-> eBound.effective]
                       @@ handle_model_output(eOutput, eBound.effective)
    /\ ePhase' = IF eHandled'.status = "raised" THEN "raised" ELSE "returned"
    /\ UNCHANGED <<eRequest, eBound, eOutput>>
    /\ ExecuteFrame

ExecuteInit ==
    /\ eRequest \in ModelRequests
    /\ ePhase = "request"
    /\ eBound = NotBound
    /\ eOutput = NoOutput
    /\ eHandled = NotHandled

ExecuteNext ==
    \/ BindModel
    \/ \E output \in ModelOutputs : InvokeModel(output)
    \/ HandleModelOutput

InitExecute == ChatInit /\ StreamIdle /\ RouterIdle /\ BuildIdle /\ ChainIdle /\ ExecuteInit /\ FilesIdle /\ TaskIdle /\ SchemaIdle /\ RunIdle /\ ApprovalIdle

SpecExecute == InitExecute /\ [][ExecuteNext]_vars

-----------------------------------------------------------------------------
(* The virtual filesystem in the agent state: the file tools, the eviction  *)
(* of large tool results by FilesystemMiddleware, the files reducer         *)
(* (SpecFiles)                                                              *)

\* A text is its list of lines, each line given by its length in characters,
\* and whether a newline ends the last line.
Text(lines, trailing) == [lines |-> lines, trailing |-> trailing]

RECURSIVE SumOf(_)
SumOf(lens) == IF lens = <<>> THEN 0 ELSE Head(lens) + SumOf(Tail(lens))

\* len(content)
TextLength(text) ==
    SumOf(text.lines) + (Len(text.lines) - 1) + (IF text.trailing THEN 1 ELSE 0)

\* content.splitlines(): the lines, without the line ends.
splitlines(text) == text.lines

\* Tool results and file contents of the model.
ToolResults ==
    {Text(lines, trailing) : lines \in {<<1>>, <<2001>>, <<2001, 1>>, <<1000, 1000>>},
                             trailing \in BOOLEAN}
FileTexts == {Text(<<1>>, FALSE), Text(<<1, 1>>, FALSE)}

\* Tool-call ids, character by character.
ToolCallIds == {<<"a", ".", "1">>, <<"a", "_", "1">>}

\* sanitize_tool_call_id: ".", "/" and "\" become "_".
sanitize_tool_call_id(tool_call_id) ==
    [i \in DOMAIN tool_call_id |->
        IF tool_call_id[i] \in {".", "/", "\\"} THEN "_" ELSE tool_call_id[i]]

\* f"/large_tool_results/{sanitized_id}"
LargeResultPath(tool_call_id) == <<"large_tool_results", sanitize_tool_call_id(tool_call_id)>>

NotesPath == <<"notes">>

\* The paths the model may name in write_file and edit_file.
ToolPaths == {NotesPath, LargeResultPath(<<"a", "_", "1">>)}

NoFiles == [p \in {} |-> <<>>]

\* file_data_reducer: the entries of right replace or extend those of left.
file_data_reducer(left, right) == right @@ left

\* StateBackend.write against the files of runtime.state.
backend_write(files, file_path, content) ==
    IF file_path \in DOMAIN files
    THEN [error |-> TRUE, files_update |-> NoFiles]
    ELSE [error |-> FALSE, files_update |-> (file_path :> splitlines(content))]

\* StateBackend.edit, reduced to the replacement of the whole content.
backend_edit(files, file_path, content) ==
    IF file_path \notin DOMAIN files
    THEN [error |-> TRUE, files_update |-> NoFiles]
    ELSE [error |-> FALSE, files_update |-> (file_path :> splitlines(content))]

Min(a, b) == IF a < b THEN a ELSE b

\* StateBackend.read: the selected lines, numbered, each cut at 2000
\* characters.
backend_read(files, file_path, offset, limit) ==
    IF file_path \notin DOMAIN files
    THEN [error |-> TRUE, lines |-> <<>>]
    ELSE LET content_lines == files[file_path]
             last          == Min(offset + limit, Len(content_lines))
         IN  [error |-> FALSE,
              lines |-> [i \in 1..(IF last > offset THEN last - offset ELSE 0) |->
                            [number |-> i + offset,
                             text |-> Min(content_lines[i + offset], 2000)]]]

\* The tool calls of one assistant turn.  "search" stands for any tool that
\* is not one of the filesystem tools.
Calls ==
    [name : {"write_file", "edit_file"}, file_path : ToolPaths, content : FileTexts]
        \cup [name : {"search"}, id : ToolCallIds, content : ToolResults]

NotRun == [kind |-> "none", file_path |-> <<>>, files_update |-> NoFiles]

\* The handler: the tool itself, run on the state the turn started from.
tool_result(files, call) ==
    IF call.name = "search"
    THEN [kind |-> "message", file_path |-> <<>>, files_update |-> NoFiles]
    ELSE LET res == IF call.name = "write_file"
                    THEN backend_write(files, call.file_path, call.content)
                    ELSE backend_edit(files, call.file_path, call.content)
         IN  IF res.error
             THEN [kind |-> "error", file_path |-> call.file_path, files_update |-> NoFiles]
             ELSE [kind |-> "updated", file_path |-> call.file_path,
                   files_update |-> res.files_update]

\* FilesystemMiddleware._process_large_message on the handler's ToolMessage.
process_large_message(limit, files, call) ==
    IF TextLength(call.content) <= 4 * limit
    THEN [kind |-> "message", file_path |-> <<>>, files_update |-> NoFiles]
    ELSE LET result == backend_write(files, LargeResultPath(call.id), call.content) IN
         IF result.error
         THEN [kind |-> "message", file_path |-> <<>>, files_update |-> NoFiles]
         ELSE [kind |-> "pointer", file_path |-> LargeResultPath(call.id),
               files_update |-> result.files_update]

\* The filesystem tools (TOOL_GENERATORS), whose results are never evicted.
FilesystemTools == {"write_file", "edit_file"}

\* No limit configured (tool_token_limit_before_evict is None).
NoLimit == 0

\* FilesystemMiddleware.wrap_tool_call / awrap_tool_call.
wrap_tool_call(limit, files, call) ==
    IF limit = NoLimit \/ call.name \in FilesystemTools
    THEN tool_result(files, call)
    ELSE process_large_message(limit, files, call)

\* The updates of the calls of a turn, applied one after the other.
RECURSIVE apply_updates(_, _)
apply_updates(files, results) ==
    IF results = <<>> THEN files
    ELSE apply_updates(file_data_reducer(files, Head(results).files_update), Tail(results))

FilesFrame == UNCHANGED <<chatVars, streamVars, routerVars, buildVars, chainVars, executeVars, taskVars, schemaVars, runVars, approvalVars>>

\* The model answers with tool calls; model_to_tools sends each of them to the
\* tool node with the state of that moment.
ModelTurn(calls) ==
    /\ fPhase \in {"idle", "applied"}
    /\ fTurns < MaxTurns
    /\ fTurns' = fTurns + 1
    /\ fTurn' = [i \in DOMAIN calls |-> [call |-> calls[i], done |-> FALSE, result |-> NotRun]]
    /\ fPhase' = "running"
    /\ UNCHANGED <<fLimit, fFiles>>
    /\ FilesFrame

\* One tool call of the turn runs through wrap_tool_call.  The calls of a turn
\* all read the files of the state the turn started from and their updates
\* are applied when the step ends, so the order in which they run does not
\* matter; they are run here in the order of the turn.
RunToolCall(i) ==
    /\ fPhase = "running"
    /\ i \in DOMAIN fTurn
    /\ ~fTurn[i].done
    /\ \A j \in 1..(i - 1) : fTurn[j].done
    /\ fTurn' = [fTurn EXCEPT ![i] = [call |-> fTurn[i].call, done |-> TRUE,
                                      result |-> wrap_tool_call(fLimit, fFiles, fTurn[i].call)]]
    /\ UNCHANGED <<fLimit, fFiles, fPhase, fTurns>>
    /\ FilesFrame

\* The end of the tools step: the "files" updates of the calls go through
\* file_data_reducer, in the order of the calls.
ApplyUpdates ==
    /\ fPhase = "running"
    /\ \A i \in DOMAIN fTurn : fTurn[i].done
    /\ fFiles' = apply_updates(fFiles, [i \in DOMAIN fTurn |-> fTurn[i].result])
    /\ fPhase' = "applied"
    /\ UNCHANGED <<fLimit, fTurn, fTurns>>
    /\ FilesFrame

FilesInit ==
    /\ fLimit \in {NoLimit, EvictLimit}
    /\ fFiles = NoFiles
    /\ fTurn = <<>>
    /\ fPhase = "idle"
    /\ fTurns = 0

FilesNext ==
    \/ \E n \in 1..MaxCalls : \E calls \in [1..n -> Calls] : ModelTurn(calls)
    \/ \E i \in 1..MaxCalls : RunToolCall(i)
    \/ ApplyUpdates

InitFiles ==
    ChatInit /\ StreamIdle /\ RouterIdle /\ BuildIdle /\ ChainIdle /\ ExecuteIdle /\ FilesInit /\ TaskIdle /\ SchemaIdle /\ RunIdle /\ ApprovalIdle

SpecFiles == InitFiles /\ [][FilesNext]_vars

-----------------------------------------------------------------------------
(* The task tool of SubAgentMiddleware: a child agent run on a state seeded *)
(* from the parent's (SpecTask)                                             *)

\* _EXCLUDED_STATE_KEYS
EXCLUDED_STATE_KEYS == {"messages", "todos", "structured_response"}

\* An agent state is a dictionary: a function from the keys present to
\* their values.
EmptyState == [k \in {} |-> <<>>]

TaskMessage(type, content) == [type |-> type, content |-> content]

Prompts == {"p1", "p2"}
SubagentTypes == {"general-purpose", "researcher", "unknown"}

\* The subagents given to the middleware (self._compiled_subagents).
CompiledSubagents == {"researcher"}

NoCall == [prompt |-> "none", subagent_type |-> "none"]

\* The messages of the parent when its model has just called the task tool.
ParentMessages == <<TaskMessage("human", "q"), TaskMessage("ai", "")>>

\* The states the parent can be in when it calls the tool: every choice of
\* the optional keys.
ParentStates ==
    {("messages" :> ParentMessages) @@ todos @@ response @@ files :
        todos \in {EmptyState, "todos" :> <<"plan">>},
        response \in {EmptyState, "structured_response" :> "answer"},
        files \in {EmptyState, "files" :> "f0"}}

\* A faulty variant of child_state that pops only "messages".
child_state_keeping_excluded(state, prompt) ==
    ("messages" :> <<TaskMessage("human", prompt)>>)
        @@ [k \in DOMAIN state \ {"messages"} |-> state[k]]

\* state = dict(runtime.state); pop the excluded keys;
\* state["messages"] = [HumanMessage(content=prompt)]
child_state(state, prompt) ==
    ("messages" :> <<TaskMessage("human", prompt)>>)
        @@ [k \in DOMAIN state \ EXCLUDED_STATE_KEYS |-> state[k]]

\* The agent the call selects, if any.
agent_found(subagent_type) ==
    \/ subagent_type = "general-purpose" /\ tGeneral
    \/ subagent_type \in CompiledSubagents

\* result["messages"][-1].content
final_content(result) == result["messages"][Len(result["messages"])].content

TaskFrame ==
    UNCHANGED <<chatVars, streamVars, routerVars, buildVars, chainVars, executeVars,
                filesVars, schemaVars, runVars, approvalVars>>

\* sync_task / async_task up to agent.invoke: the child is chosen and its
\* state seeded.
TaskInvoke(prompt, subagent_type) ==
    /\ tPhase = "ready"
    /\ agent_found(subagent_type)
    /\ tCall' = [prompt |-> prompt, subagent_type |-> subagent_type]
    /\ tChild' = child_state(tParent, prompt)
    /\ tSteps' = 0
    /\ tPhase' = "child"
    /\ UNCHANGED <<tParent, tGeneral>>
    /\ TaskFrame

\* The tool is called with a subagent type the middleware does not know: the
\* tool returns an error text, which the tool node adds to the parent's
\* messages.
TaskUnknown(prompt, subagent_type) ==
    /\ tPhase = "ready"
    /\ ~agent_found(subagent_type)
    /\ tCall' = [prompt |-> prompt, subagent_type |-> subagent_type]
    /\ tParent' = [tParent EXCEPT !["messages"] =
                      Append(@, TaskMessage("tool", "Error: Unknown subagent type"))]
    /\ tPhase' = "error"
    /\ UNCHANGED <<tGeneral, tChild, tSteps>>
    /\ TaskFrame

\* The child's model answers.
ChildModel(content) ==
    /\ tPhase = "child"
    /\ tSteps < MaxChildSteps
    /\ tChild' = [tChild EXCEPT !["messages"] = Append(@, TaskMessage("ai", content))]
    /\ tSteps' = tSteps + 1
    /\ UNCHANGED <<tParent, tGeneral, tCall, tPhase>>
    /\ TaskFrame

\* A tool of the child writes a key of the child's state.
ChildWrite(key, value) ==
    /\ tPhase = "child"
    /\ tSteps < MaxChildSteps
    /\ tChild' = (key :> value) @@ tChild
    /\ tSteps' = tSteps + 1
    /\ UNCHANGED <<tParent, tGeneral, tCall, tPhase>>
    /\ TaskFrame

\* agent.invoke returns after an answer of the child's model; the tool
\* returns the content of the last message and the tool node adds it to the
\* parent's messages as the tool message of the call.
TaskReturn ==
    /\ tPhase = "child"
    /\ tChild["messages"][Len(tChild["messages"])].type = "ai"
    /\ tParent' = [tParent EXCEPT !["messages"] =
                      Append(@, TaskMessage("tool", final_content(tChild)))]
    /\ tPhase' = "returned"
    /\ UNCHANGED <<tGeneral, tCall, tChild, tSteps>>
    /\ TaskFrame

TaskInit ==
    /\ tParent \in ParentStates
    /\ tGeneral \in BOOLEAN
    /\ tCall = NoCall
    /\ tChild = EmptyState
    /\ tSteps = 0
    /\ tPhase = "ready"

TaskNext ==
    \/ \E prompt \in Prompts, subagent_type \in SubagentTypes :
          \/ TaskInvoke(prompt, subagent_type)
          \/ TaskUnknown(prompt, subagent_type)
    \/ \E content \in {"c1", "c2"} : ChildModel(content)
    \/ ChildWrite("todos", <<"child plan">>)
    \/ ChildWrite("structured_response", "child answer")
    \/ ChildWrite("files", "f1")
    \/ TaskReturn

InitTask ==
    ChatInit /\ StreamIdle /\ RouterIdle /\ BuildIdle /\ ChainIdle /\ ExecuteIdle /\ FilesIdle /\ SchemaIdle /\ RunIdle /\ ApprovalIdle
        /\ TaskInit

SpecTask == InitTask /\ [][TaskNext]_vars

-----------------------------------------------------------------------------
(* The resolution of the state, input and output schemas from the schemas   *)
(* of the middleware (SpecSchema)                                           *)

\* Field types, with the structure _extract_metadata looks at: a plain type,
\* Annotated[T, metadata...], Required[...] or NotRequired[...] around either.
Plain == [origin |-> "plain"]
AnnotatedType(metadata) == [origin |-> "Annotated", metadata |-> metadata]
Wrapped(origin, inner) == [origin |-> origin, inner |-> inner]

\* The metadata of the model: OmitFromSchema(input=True), OmitFromSchema(
\* output=True), and a reducer, which says nothing about omission.
OmitInput == [kind |-> "OmitFromSchema", input |-> TRUE, output |-> FALSE]
OmitOutput == [kind |-> "OmitFromSchema", input |-> FALSE, output |-> TRUE]
Reducer == [kind |-> "reducer", input |-> FALSE, output |-> FALSE]

FieldTypes ==
    {Plain,
     AnnotatedType({Reducer}),
     AnnotatedType({OmitInput}),
     Wrapped("NotRequired", AnnotatedType({Reducer, OmitInput})),
     Wrapped("Required", AnnotatedType({OmitOutput})),
     Wrapped("NotRequired", Plain)}

FieldNames == {"a", "b"}

\* A schema is the dictionary get_type_hints gives for it: field -> type.
Schemas == UNION {[names -> FieldTypes] : names \in SUBSET FieldNames \ {{}}}

\* The sets of at most n schemas.
RECURSIVE SetsUpTo(_)
SetsUpTo(n) ==
    IF n = 0 THEN {{}} ELSE {S \cup {s} : S \in SetsUpTo(n - 1), s \in Schemas} \cup {{}}

SchemaSets == SetsUpTo(MaxSchemas) \ {{}}

NoFields == [f \in {} |-> <<>>]

\* A faulty variant of extract_metadata that does not look inside
\* Required and NotRequired.
extract_metadata_direct_only(type) ==
    IF type.origin = "Annotated" THEN type.metadata ELSE {}

\* _extract_metadata
extract_metadata(type) ==
    IF type.origin \in {"Required", "NotRequired"}
    THEN IF type.inner.origin = "Annotated" THEN type.inner.metadata ELSE {}
    ELSE IF type.origin = "Annotated" THEN type.metadata ELSE {}

\* getattr(meta, omit_flag) is True, for an OmitFromSchema
should_omit(type, omit_flag) ==
    /\ omit_flag # "state"
    /\ \E meta \in extract_metadata(type) :
          /\ meta.kind = "OmitFromSchema"
          /\ IF omit_flag = "input" THEN meta.input ELSE meta.output

\* The body of the loop of _resolve_schema for one schema: its fields that
\* are not omitted are put into all_annotations.
merge_hints(all_annotations, hints, omit_flag) ==
    [f \in {g \in DOMAIN hints : ~should_omit(hints[g], omit_flag)} |-> hints[f]]
        @@ all_annotations

NextPass(pass) ==
    CASE pass = "state" -> "input"
      [] pass = "input" -> "output"
      [] pass = "output" -> "done"

SchemaFrame ==
    UNCHANGED <<chatVars, streamVars, routerVars, buildVars, chainVars, executeVars,
                filesVars, taskVars, runVars, approvalVars>>

\* One turn of the loop "for schema in schemas": a set has no order of its
\* own, so any schema not yet visited may come next.
MergeSchema(schema) ==
    /\ gPass \in {"state", "input", "output"}
    /\ schema \in gTodo
    /\ gAll' = merge_hints(gAll, schema, gPass)
    /\ gTodo' = gTodo \ {schema}
    /\ UNCHANGED <<gSchemas, gPass, gResolved>>
    /\ SchemaFrame

\* return TypedDict(schema_name, all_annotations), and resolve_state_schemas
\* goes on to the next of StateSchema, InputSchema, OutputSchema.
FinishSchema ==
    /\ gPass \in {"state", "input", "output"}
    /\ gTodo = {}
    /\ gResolved' = (gPass :> gAll) @@ gResolved
    /\ gPass' = NextPass(gPass)
    /\ gTodo' = IF gPass = "output" THEN {} ELSE gSchemas
    /\ gAll' = NoFields
    /\ UNCHANGED gSchemas
    /\ SchemaFrame

SchemaInit ==
    /\ gSchemas \in SchemaSets
    /\ gPass = "state"
    /\ gTodo = gSchemas
    /\ gAll = NoFields
    /\ gResolved = [p \in {} |-> <<>>]

SchemaNext ==
    \/ \E schema \in Schemas : MergeSchema(schema)
    \/ FinishSchema

InitSchema ==
    ChatInit /\ StreamIdle /\ RouterIdle /\ BuildIdle /\ ChainIdle /\ ExecuteIdle /\ FilesIdle /\ RunIdle /\ ApprovalIdle
        /\ TaskIdle /\ SchemaInit

SpecSchema == InitSchema /\ [][SchemaNext]_vars

-----------------------------------------------------------------------------
(* One run of the compiled agent graph, step by step, under the recursion   *)
(* limit compile_graph configures (SpecRun, SpecRunLive)                    *)

\* with_config({"recursion_limit": 10_000})
RecursionLimit == 10000

\* The graphs of this part have no middleware nodes: the loop is the model
\* node, the tools node and the edge create_agent_impl puts between them.
RunConfigs ==
    {c \in Configs :
        /\ c.before_agent = 0 /\ c.before_model = 0
        /\ c.after_model = 0 /\ c.after_agent = 0
        /\ c.tool_node \in {"none", "plain"}
        /\ c.response_format \in {"none", "tool"}}

\* A faulty variant of out_of_steps: the engine never gives up.
never_out_of_steps(steps) == FALSE

\* The engine refuses to begin a step once the run has used up its
\* recursion limit.
out_of_steps(steps) == steps >= RecursionLimit

RunFrame ==
    UNCHANGED <<chatVars, streamVars, routerVars, buildVars, chainVars, executeVars,
                filesVars, taskVars, schemaVars, approvalVars>>

\* The node the edge of the node that just ran leads to.
NextNode(node, state) ==
    CHOOSE n \in EdgeReturns(pCfg, EdgeAt(pCfg, node), state) : TRUE

\* The step ends: the run goes on at the next node, or is over at END.
Advance(node, state) ==
    /\ pAt' = NextNode(node, state)
    /\ pPhase' = IF NextNode(node, state) = END THEN "ended" ELSE "running"
    /\ pSteps' = pSteps + 1

\* A step that runs the model node.
RunStepModel(o) ==
    /\ pPhase = "running"
    /\ pAt = ModelNode
    /\ ~out_of_steps(pSteps)
    /\ o # "raise"
    /\ ModelOutcomeAllowed(pCfg, o)
    /\ pState' = ModelWrites(pCfg, pState, o)
    /\ Advance(ModelNode, pState')
    /\ UNCHANGED pCfg
    /\ RunFrame

\* The model call raises: the run fails with that error.
RunStepModelRaises ==
    /\ pPhase = "running"
    /\ pAt = ModelNode
    /\ ~out_of_steps(pSteps)
    /\ ModelOutcomeAllowed(pCfg, "raise")
    /\ pPhase' = "failed"
    /\ pSteps' = pSteps + 1
    /\ UNCHANGED <<pCfg, pState, pAt>>
    /\ RunFrame

\* A step that runs the tools node to its end.
RunStepTools ==
    /\ pPhase = "running"
    /\ pAt = ToolsNode
    /\ ~out_of_steps(pSteps)
    /\ pState' = [pState EXCEPT !.jump_to = "none", !.pending = FALSE]
    /\ Advance(ToolsNode, pState')
    /\ UNCHANGED pCfg
    /\ RunFrame

\* A tool calls interrupt(): the run pauses with the tools node pending.
RunStepToolsInterrupted ==
    /\ pPhase = "running"
    /\ pAt = ToolsNode
    /\ ~out_of_steps(pSteps)
    /\ pPhase' = "interrupted"
    /\ UNCHANGED <<pCfg, pState, pAt, pSteps>>
    /\ RunFrame

\* The recursion-limit error.
RecursionError ==
    /\ pPhase = "running"
    /\ out_of_steps(pSteps)
    /\ pPhase' = "failed"
    /\ UNCHANGED <<pCfg, pState, pAt, pSteps>>
    /\ RunFrame

RunInit ==
    /\ pCfg \in RunConfigs
    /\ pState = InputState
    /\ pAt = ModelNode
    /\ pSteps = 0
    /\ pPhase = "running"

RunNext ==
    \/ \E o \in ModelOutcomes : RunStepModel(o)
    \/ RunStepModelRaises
    \/ RunStepTools
    \/ RunStepToolsInterrupted
    \/ RecursionError

InitRun ==
    ChatInit /\ StreamIdle /\ RouterIdle /\ BuildIdle /\ ChainIdle /\ ExecuteIdle /\ FilesIdle /\ ApprovalIdle
        /\ TaskIdle /\ SchemaIdle /\ RunInit

SpecRun == InitRun /\ [][RunNext]_vars

\* The engine begins the next step as long as the run is neither over nor
\* paused; a node that is run returns.
SpecRunLive == SpecRun /\ WF_vars(RunNext)

-----------------------------------------------------------------------------
(* A tool wrapped with require_approval, resumed through                    *)
(* ChatRunner.resume_interrupt or cancelled (SpecApproval)                  *)

ToolArgs == {"x1", "x2"}
ModifiedArgs == {"m1"}
NoArgs == "none"

\* What a client may send as user_response: a dictionary with or without an
\* action and modified_args, or a plain value such as a string.
UserResponses ==
    [kind : {"dict"}, action : {"approve", "modify", "deny", "none"},
     modified_args : ModifiedArgs \cup {NoArgs}]
        \cup [kind : {"text"}, action : {"none"}, modified_args : {NoArgs}]

NoResponse == [kind |-> "none"]

\* The interrupt_id of a resume request: absent, the id of the pending
\* interrupt, the id of no pending interrupt, a text that is not an id.
InterruptIds == {"absent", "pending", "other", "text"}

\* ChatRunner.resume_interrupt: the Command built from the request.
resume_command(interrupt_id, user_response) ==
    IF interrupt_id # "absent" /\ user_response.kind = "dict"
    THEN [kind |-> "map", key |-> interrupt_id, value |-> user_response]
    ELSE [kind |-> "value", key |-> "absent", value |-> user_response]

\* What interrupt() returns in the resumed tool, as a sequence: empty when
\* the command has no value for the pending interrupt.  A dictionary whose
\* keys are interrupt ids is taken as a map from interrupts to values; any
\* other value is the value itself, a dictionary keyed by a text included,
\* which then has no "action".
resume_data(command) ==
    CASE command.kind = "value" -> << command.value >>
      [] command.key = "pending" -> << command.value >>
      [] command.key = "other" -> << >>
      [] OTHER -> << [kind |-> "dict", action |-> "none", modified_args |-> NoArgs] >>

\* require_approval.wrapper after interrupt() has returned: what it returns
\* and the arguments the tool body ran with.  A value without .get raises;
\* tool_func(**{}) raises before the body, the tools having a required
\* parameter.
wrapper(args, data) ==
    IF data.kind # "dict" THEN [phase |-> "raised", result |-> "none", ran |-> << >>]
    ELSE IF data.action = "approve"
    THEN [phase |-> "returned", result |-> "body", ran |-> << args >>]
    ELSE IF data.action = "modify"
    THEN IF data.modified_args = NoArgs
         THEN [phase |-> "raised", result |-> "none", ran |-> << >>]
         ELSE [phase |-> "returned", result |-> "body", ran |-> << data.modified_args >>]
    ELSE [phase |-> "returned", result |-> "denied", ran |-> << >>]

ApprovalFrame ==
    UNCHANGED <<chatVars, streamVars, routerVars, buildVars, chainVars, executeVars,
                filesVars, taskVars, schemaVars, runVars>>

\* The tools node calls the wrapped tool: interrupt(payload) pauses the run.
CallTool(args) ==
    /\ aPhase \in {"ready", "returned", "raised", "cancelled"}
    /\ aCalls < MaxApprovalCalls
    /\ aCalls' = aCalls + 1
    /\ aArgs' = args
    /\ aPhase' = "paused"
    /\ aResp' = NoResponse
    /\ aResult' = "none"
    /\ UNCHANGED aExec
    /\ ApprovalFrame

\* resume_interrupt: the tools node runs the wrapper again from its start
\* and interrupt() returns the resume value, if the command has one for it.
ResumeTool(interrupt_id, user_response) ==
    /\ aPhase = "paused"
    /\ aResp' = user_response
    /\ LET data == resume_data(resume_command(interrupt_id, user_response)) IN
       IF data = << >>
       THEN UNCHANGED <<aPhase, aExec, aResult>>
       ELSE LET w == wrapper(aArgs, data[1]) IN
            /\ aPhase' = w.phase
            /\ aResult' = w.result
            /\ aExec' = aExec \o w.ran
    /\ UNCHANGED <<aArgs, aCalls>>
    /\ ApprovalFrame

\* cancel_interrupt: the state is updated with a system message and the
\* pending tools step is dropped.
CancelTool ==
    /\ aPhase = "paused"
    /\ aPhase' = "cancelled"
    /\ UNCHANGED <<aArgs, aResp, aExec, aResult, aCalls>>
    /\ ApprovalFrame

ApprovalInit ==
    /\ aArgs = NoArgs
    /\ aPhase = "ready"
    /\ aResp = NoResponse
    /\ aExec = <<>>
    /\ aResult = "none"
    /\ aCalls = 0

ApprovalNext ==
    \/ \E args \in ToolArgs : CallTool(args)
    \/ \E interrupt_id \in InterruptIds, user_response \in UserResponses :
          ResumeTool(interrupt_id, user_response)
    \/ CancelTool

InitApproval ==
    ChatInit /\ StreamIdle /\ RouterIdle /\ BuildIdle /\ ChainIdle /\ ExecuteIdle /\ FilesIdle
        /\ TaskIdle /\ SchemaIdle /\ RunIdle /\ ApprovalInit

SpecApproval == InitApproval /\ [][ApprovalNext]_vars

-----------------------------------------------------------------------------
(* Properties of the connection (SpecChat) *)

ReqDone == req.phase = "done"

HasEvent(e) == \E i \in 1..Len(sent) : sent[i].event = e

CountEvent(e) == Cardinality({i \in 1..Len(sent) : sent[i].event = e})

\* The run of the request ended paused at an interrupt.
RunPaused == nxt[req.tid] = "tools" /\ ints[req.tid] # {}

\* The run of the request ran to the end of the graph.
RunCompleted == nxt[req.tid] = "none"

\* C3: every finished send_message or resume_interrupt request has delivered
\* message_complete, interrupt_detected or error to the client.
C3_TerminatingEventDelivered ==
    (ReqDone /\ req.op \in {"send", "resume"})
        => (HasEvent("message_complete") \/ HasEvent("interrupt_detected") \/ HasEvent("error"))

\* C4: a send_message whose run pauses at a tool's interrupt(payload) has
\* delivered interrupt_detected with that payload and the interrupt's id, and
\* no message_complete.
C4_SendSurfacesInterrupt ==
    (ReqDone /\ req.op = "send" /\ ~req.raised /\ RunPaused)
        => /\ \E i \in 1..Len(sent) :
                /\ sent[i].event = "interrupt_detected"
                /\ sent[i].iid \in ints[req.tid]
                /\ sent[i].value = Interrupt(sent[i].iid).value
           /\ ~HasEvent("message_complete")

\* C5: a resume_interrupt naming the interrupt the run was paused at, with an
\* approving response, delivers only ai_token events tagged resumed, and ends
\* with message_complete when the resumed run neither pauses again nor fails.
C5_ResumeCompletes ==
    (ReqDone /\ req.op = "resume" /\ req.iid \in req.paused /\ req.resp = "approve")
        => /\ \A i \in 1..Len(sent) : sent[i].event = "ai_token" => sent[i].resumed
           /\ (~req.raised /\ RunCompleted) => HasEvent("message_complete")

\* C6: when an exception was raised while the request was streamed, exactly
\* one error event was delivered and it is the last event of the request.
C6_ErrorIsTerminal ==
    (ReqDone /\ req.op \in {"send", "resume"} /\ req.raised)
        => /\ CountEvent("error") = 1
           /\ sent[Len(sent)].event = "error"

\* C7: of two cancel_interrupt calls made in a row on a thread, the first of
\* which found a pending interrupt, the second reports no_interrupts.
C7_SecondCancelNoInterrupts ==
    \A t \in Threads : \A i \in 2..Len(cstreak[t]) :
        cstreak[t][i - 1].hadInt => cstreak[t][i].status = "no_interrupts"

C7_Witness ==
    \E t \in Threads :
        /\ Len(cstreak[t]) >= 2
        /\ cstreak[t][1].hadInt /\ cstreak[t][1].status = "cancelled"
        /\ cstreak[t][2].status = "no_interrupts"

\* The step is a cancel_interrupt call on thread t.
CancelStepOn(t) == reqCount' = reqCount + 1 /\ req'.op = "cancel" /\ req'.tid = t

\* C8: cancel_interrupt on a thread with no pending continuation returns
\* no_interrupts and leaves transcript, next steps, interrupts and checkpoint
\* history of the thread as they were.
C8_CancelIdleIsNoOp ==
    [][\A t \in Threads :
          (CancelStepOn(t) /\ nxt[t] = "none")
              => /\ req'.status = "no_interrupts"
                 /\ msgs'[t] = msgs[t] /\ nxt'[t] = nxt[t]
                 /\ ints'[t] = ints[t] /\ ckpts'[t] = ckpts[t]]_vars

C8_Witness ==
    /\ ReqDone /\ req.op = "cancel" /\ req.status = "no_interrupts"
    /\ Len(msgs[req.tid]) > 0

\* C9: cancel_interrupt on a thread paused at an interrupt writes one
\* checkpoint whose transcript is the old one followed by one new system
\* message; it starts no run, passes no resume value and runs no tool body.
C9_CancelAppendsOneSystemMessage ==
    [][\A t \in Threads :
          (CancelStepOn(t) /\ ints[t] # {})
              => /\ req'.status = "cancelled"
                 /\ Len(msgs'[t]) = Len(msgs[t]) + 1
                 /\ SubSeq(msgs'[t], 1, Len(msgs[t])) = msgs[t]
                 /\ msgs'[t][Len(msgs'[t])].type = "system"
                 /\ \A i \in 1..Len(msgs[t]) : msgs[t][i].id # msgs'[t][Len(msgs'[t])].id
                 /\ ckpts'[t] = ckpts[t] + 1
                 /\ bodyRuns' = bodyRuns
                 /\ req'.phase = "done" /\ ~req'.answer]_vars

C9_Witness ==
    /\ ReqDone /\ req.op = "cancel" /\ req.status = "cancelled" /\ req.paused # {}
    /\ msgs[req.tid][Len(msgs[req.tid])].type = "system"

\* C10: a send_message that follows the cancellation of a pending interrupt
\* on the same thread, and whose run completes, ends with message_complete.
C10_SendAfterCancelCompletes ==
    (ReqDone /\ req.op = "send" /\ req.afterCancel /\ ~req.raised /\ RunCompleted)
        => HasEvent("message_complete")

-----------------------------------------------------------------------------
(* Properties of the generators (SpecStream) *)

UnifiedModes == {"unified", "unified_closed", "unified_failed"}

\* The positions in the output of the events of chunk number j.
EventsOf(j) == {i \in 1..Len(sOut) : sOut[i].src = j}

\* C2: in a unified stream, a state-value update carrying k interrupts under
\* the interrupt key yields exactly k interrupt_detected events, one per
\* interrupt and in their order, and then the one state_update of that update.
C2_InterruptsBeforeStateUpdate ==
    sMode \in UnifiedModes =>
        \A j \in 1..Len(sFed) :
            sFed[j].ch = "values"
            => LET k  == IF sFed[j].hasInt THEN Len(sFed[j].ints) ELSE 0
                   is == {i \in EventsOf(j) : sOut[i].ev.type = "interrupt_detected"}
                   su == {i \in EventsOf(j) : sOut[i].ev.type = "state_update"}
               IN  /\ Cardinality(is) = k
                   /\ Cardinality(su) = 1
                   /\ \A d \in is : \A u \in su : d < u
                   /\ \A n \in 1..k : \E d \in is :
                        /\ sOut[d].ev.iid = sFed[j].ints[n].id
                        /\ Cardinality({m \in is : m < d}) = n - 1

C2_Witness ==
    /\ sMode \in UnifiedModes
    /\ \E j \in 1..Len(sFed) :
         /\ sFed[j].ch = "values" /\ sFed[j].hasInt /\ Len(sFed[j].ints) = 2
         /\ Cardinality({i \in EventsOf(j) : sOut[i].ev.type = "interrupt_detected"}) = 2
         /\ \E i \in EventsOf(j) : sOut[i].ev.type = "state_update"

-----------------------------------------------------------------------------
(* Properties of the routing (SpecRouter) *)

\* C1: every value a registered routing function returns (a node name, or
\* the target of each Send) is a member of the destination list passed when
\* its conditional edge was registered.
C1_RoutingComplete ==
    \A r \in rRet : r.ret \subseteq r.destinations

\* ---- The routing functions on the states a run reaches ----

\* The return of the model->tools routing function on the current state.
ModelToToolsReturns == {r \in rRet : r.kind = "model_to_tools"}

\* C11, as stated: whenever the most recent assistant message has no tool
\* calls, the model->tools routing function returns the exit destination,
\* whatever else the state holds.
C11_NoToolCallsExit ==
    \A r \in ModelToToolsReturns :
        rState.ai = "final" => r.ret = {exit_node(rCfg)}

\* C11, amended: when no jump directive is set and the most recent assistant
\* message has no tool calls, the model->tools routing function returns the
\* exit destination, whatever else the state holds.
C11_NoToolCallsExitWithoutDirective ==
    \A r \in ModelToToolsReturns :
        (rState.ai = "final" /\ rState.jump_to = "none") => r.ret = {exit_node(rCfg)}

C11_Witness ==
    /\ \E r \in ModelToToolsReturns : r.ret = {exit_node(rCfg)}
    /\ rState.ai = "final"
    /\ rState.jump_to = "none"
    /\ rAt = exit_node(rCfg)

\* C12: when the state carries the jump directive model, end or tools, the
\* model->tools routing function returns loop_entry_node, exit_node or the
\* tools node respectively, whatever the messages are.
C12_DirectiveBeforeMessages ==
    \A r \in ModelToToolsReturns :
        /\ rState.jump_to = "model" => r.ret = {loop_entry_node(rCfg)}
        /\ rState.jump_to = "end"   => r.ret = {exit_node(rCfg)}
        /\ rState.jump_to = "tools" => r.ret = {ToolsNode}

\* A directive sends the run back to the loop entry although the last
\* assistant message has unanswered tool calls.
C12_Witness ==
    /\ ModelToToolsReturns # {}
    /\ rState.jump_to = "model"
    /\ rState.ai = "calls"
    /\ rState.pending
    /\ rAt = loop_entry_node(rCfg)

\* The return of the tools->model routing function on the current state.
ToolsToModelReturns == {r \in rRet : r.kind = "tools_to_model"}

RetryOwed == rState.structured_msg /\ ~rState.structured_response

\* C14: once the output handler has turned a structured-output failure into
\* error tool messages, the run invokes the model again before it is routed
\* to the exit destination, also when the same assistant turn holds ordinary
\* tool calls that the tools node executes first.
C14_RetryBeforeExit ==
    (rAt = exit_node(rCfg) /\ rRet # {} /\ rState.jump_to = "none") => ~RetryOwed

\* C15: START has one outgoing edge, an unconditional edge to entry_node, and
\* every run that is routed to the exit destination eventually reaches END,
\* directly or after the after_agent nodes.
C15_ExitReachesEnd ==
    /\ [][rAt = START => (rRet' = {} /\ rAt' = determine_routing_nodes(rCfg).entry_node)]_vars
    /\ (rAt = exit_node(rCfg)) ~> (rAt = END)

\* ---- The order of the hook nodes ----

\* The i-th hook node of a bucket has run and left no jump directive.
HookRanPlainly(hook, i) == rAt = HookNode(hook, i) /\ rState'.jump_to = "none"

\* C16, as stated: with no jump directive set, in each of the four buckets
\* the hook node of a middleware leads to the hook node of the next
\* middleware declared with the same hook, and the hook node of the last
\* declared middleware leads to the next structural anchor.
C16_DeclarationOrder ==
    [][\A hook \in Hooks : \A i \in 1..MaxMiddleware :
          /\ (HookRanPlainly(hook, i) /\ i < rCfg[hook]) => rAt' = HookNode(hook, i + 1)
          /\ (HookRanPlainly(hook, i) /\ i = rCfg[hook]) =>
                CASE hook = "before_agent" -> rAt' = loop_entry_node(rCfg)
                  [] hook = "before_model" -> rAt' = ModelNode
                  [] hook = "after_model"  ->
                        rAt' \in {ToolsNode, exit_node(rCfg), loop_entry_node(rCfg)}
                  [] hook = "after_agent"  -> rAt' = END]_vars

\* C16, amended: with no jump directive set, the before_agent and
\* before_model nodes run in declaration order and the last declared one
\* leads to the next anchor (loop_entry_node, the model node); the after_model
\* and after_agent nodes run in reverse declaration order: the bucket is
\* entered at the last declared middleware, each hook node leads to the hook node of the middleware
\* declared before it, and the first declared one leads to the next anchor
\* (the loop-exit routing, END).
C16_BeforeForwardAfterBackward ==
    [][/\ \A hook \in {"before_agent", "before_model"} : \A i \in 1..MaxMiddleware :
            /\ (HookRanPlainly(hook, i) /\ i < rCfg[hook]) => rAt' = HookNode(hook, i + 1)
            /\ (HookRanPlainly(hook, i) /\ i = rCfg[hook]) =>
                  rAt' = IF hook = "before_agent" THEN loop_entry_node(rCfg) ELSE ModelNode
       /\ \A hook \in {"after_model", "after_agent"} : \A i \in 1..MaxMiddleware :
            /\ (HookRanPlainly(hook, i) /\ i > 1) => rAt' = HookNode(hook, i - 1)
            /\ (HookRanPlainly(hook, i) /\ i = 1) =>
                  IF hook = "after_agent" THEN rAt' = END
                  ELSE rAt' \in {ToolsNode, exit_node(rCfg), loop_entry_node(rCfg)}
       /\ (rAt = ModelNode /\ rAt' # RaisedAt /\ rCfg.after_model > 0)
              => rAt' = HookNode("after_model", rCfg.after_model)]_vars

\* The first declared after_model hook runs after the later declared ones.
C16_Witness ==
    /\ rCfg.after_model >= 2
    /\ rCfg.jumper = "none"
    /\ rAt = HookNode("after_model", 1)
    /\ rState.ai # "none"

\* ---- The nodes of the built graph ----

\* The node set the graph is to have for a middleware list.
ExpectedNodes ==
    {ModelNode} \cup (IF bToolNode THEN {ToolsNode} ELSE {})
        \cup UNION {{MiddlewareNode(bMiddleware[i], hook) : hook \in bMiddleware[i].hooks} :
                      i \in DOMAIN bMiddleware}

\* C17: for a middleware list with unique names the construction succeeds and
\* the graph has exactly the model node, the tools node iff a tool node
\* exists, and one node per middleware and node hook it implements, each
\* added once.
C17_NodeSet ==
    validate_middleware(bMiddleware) =>
        /\ bPhase # "raised"
        /\ bPhase = "built" =>
              /\ Range(bNodes) = ExpectedNodes
              /\ Len(bNodes) = Cardinality(ExpectedNodes)

\* ---- The structural anchors ----

\* The hook node of the first and of the last middleware of a bucket.
FirstOf(hook) == HookNode(hook, 1)
LastOf(hook)  == HookNode(hook, rCfg[hook])

\* C18: entry_node is the first before_agent node if any, else the first
\* before_model node if any, else the model node; loop_entry_node is the first
\* before_model node if any, else the model node; loop_exit_node is the first
\* after_model node if any, else the model node; exit_node is the last
\* after_agent node if any, else END.  The run starts at entry_node, the loop
\* routing is attached at loop_exit_node, a tool round re-enters at
\* loop_entry_node and a return_direct round leaves through exit_node.
C18_RoutingNodes ==
    /\ [](/\ determine_routing_nodes(rCfg).entry_node =
                IF rCfg.before_agent > 0 THEN FirstOf("before_agent")
                ELSE IF rCfg.before_model > 0 THEN FirstOf("before_model") ELSE ModelNode
          /\ determine_routing_nodes(rCfg).loop_entry_node =
                IF rCfg.before_model > 0 THEN FirstOf("before_model") ELSE ModelNode
          /\ determine_routing_nodes(rCfg).loop_exit_node =
                IF rCfg.after_model > 0 THEN FirstOf("after_model") ELSE ModelNode
          /\ determine_routing_nodes(rCfg).exit_node =
                IF rCfg.after_agent > 0 THEN LastOf("after_agent") ELSE END)
    /\ [][rAt = START =>
             rAt' = IF rCfg.before_agent > 0 THEN FirstOf("before_agent")
                    ELSE IF rCfg.before_model > 0 THEN FirstOf("before_model") ELSE ModelNode]_vars
    /\ [](\A r \in rRet :
             /\ r.kind \in {"model_to_tools", "model_to_model"} =>
                   r.from = IF rCfg.after_model > 0 THEN FirstOf("after_model") ELSE ModelNode
             /\ (r.kind = "tools_to_model" /\ rState.client /\ rState.direct) =>
                   rAt = IF rCfg.after_agent > 0 THEN LastOf("after_agent") ELSE END
             /\ (r.kind = "tools_to_model" /\ rState.client /\ ~rState.direct
                    /\ ~rState.structured_msg) =>
                   rAt = IF rCfg.before_model > 0 THEN FirstOf("before_model") ELSE ModelNode)

\* A return_direct tool round leaves through the last of two after_agent
\* nodes in a graph whose entry is its first before_model node.
C18_Witness ==
    /\ rCfg.before_agent = 0
    /\ rCfg.before_model > 0
    /\ rCfg.after_agent = 2
    /\ ToolsToModelReturns # {}
    /\ rState.direct
    /\ rAt = HookNode("after_agent", 2)

\* ---- Jump directives at the hook nodes ----

\* The node a hook node leads to when no directive applies; the first
\* after_model node carries the loop routing instead unless the graph has
\* neither a tool node nor structured-output tools.
DefaultNext(hook, i) ==
    CASE hook = "before_agent" ->
            IF i < rCfg.before_agent THEN HookNode(hook, i + 1) ELSE loop_entry_node(rCfg)
      [] hook = "before_model" ->
            IF i < rCfg.before_model THEN HookNode(hook, i + 1) ELSE ModelNode
      [] hook = "after_model" ->
            IF i > 1 THEN HookNode(hook, i - 1) ELSE exit_node(rCfg)
      [] hook = "after_agent" ->
            IF i > 1 THEN HookNode(hook, i - 1) ELSE END

RoutesByMessages(hook, i) ==
    /\ hook = "after_model"
    /\ i = 1
    /\ (rCfg.tool_node # "none" \/ structured_output_tools(rCfg))

\* C19: at a hook node whose hook declares a jump capability the next node
\* is loop_entry_node for the directive model, exit_node for end, the tools
\* node for tools and the default next node when no directive is set; at a
\* hook node whose hook declares none the next node is the default next node.
C19_HookJumps ==
    [][\A hook \in Hooks : \A i \in 1..MaxMiddleware :
          rAt = HookNode(hook, i) =>
              IF get_can_jump_to(rCfg, hook) # {}
              THEN /\ rState'.jump_to = "model" => rAt' = loop_entry_node(rCfg)
                   /\ rState'.jump_to = "end"   => rAt' = exit_node(rCfg)
                   /\ rState'.jump_to = "tools" => rAt' = ToolsNode
                   /\ (rState'.jump_to = "none" /\ ~RoutesByMessages(hook, i))
                          => rAt' = DefaultNext(hook, i)
              ELSE ~RoutesByMessages(hook, i) => rAt' = DefaultNext(hook, i)]_vars

\* ---- The order of the wrappers of a chain ----

\* Every wrapper of the list calls its next once.
EachCallsNextOnce == \A i \in DOMAIN hHandlers : hHandlers[i].calls = 1

\* The call of the composed handler has returned.
ChainReturned == hLog # <<>> /\ hStack = <<>>

\* w1 ... wn are entered in list order, the leaf runs, wn ... w1 return.
OnionOrder(n) ==
    [k \in 1..(2 * n + 1) |->
        IF k <= n THEN <<"enter", k>>
        ELSE IF k = n + 1 THEN <<"leaf", 0>>
        ELSE <<"return", 2 * n + 2 - k>>]

\* C20: for a non-empty wrapper list given to any of the four composers, when
\* each wrapper calls its next once, the wrappers are entered in list order,
\* then the leaf executor runs, then the wrappers return in reverse order.
C20_OnionOrder ==
    (hHandlers # <<>> /\ EachCallsNextOnce) =>
        LET n == Len(hHandlers)
            observed == [k \in DOMAIN hLog |-> <<hLog[k].ev, hLog[k].w>>]
        IN  /\ Len(observed) <= 2 * n + 1
            /\ observed = SubSeq(OnionOrder(n), 1, Len(observed))
            /\ ChainReturned => observed = OnionOrder(n)

C20_Witness ==
    /\ Len(hHandlers) >= 2
    /\ EachCallsNextOnce
    /\ ChainReturned
    /\ hComposer = "atool"

\* ---- The values crossing the boundaries of a model-call chain ----

\* C21: for a list of one or more model-call wrappers, each returning a bare
\* assistant message or a ModelResponse, the composed handler returns a
\* ModelResponse, and every value a wrapper receives back from calling its
\* next is a ModelResponse.
C21_AlwaysModelResponse ==
    (Normalizes(hComposer) /\ hHandlers # <<>>) =>
        /\ \A k \in DOMAIN hLog :
              hLog[k].ev \in {"return", "leaf"} => hLog[k].value = "ModelResponse"
        /\ ChainReturned => hResult = "ModelResponse"

\* Two nested wrappers both return a bare assistant message.
C21_Witness ==
    /\ Normalizes(hComposer)
    /\ Len(hHandlers) >= 2
    /\ hHandlers[1].returns = "AIMessage"
    /\ hHandlers[2].returns = "AIMessage"
    /\ hHandlers[1].calls >= 1
    /\ ChainReturned
    /\ hResult = "ModelResponse"

\* ---- Repeated middleware names ----

\* Two entries of the middleware list share a name.
SharedName ==
    \E i, j \in DOMAIN bMiddleware : i # j /\ bMiddleware[i].name = bMiddleware[j].name

\* C22: building an agent from a middleware list in which two entries share a
\* name fails with an error raised to the caller of the build: no node is
\* added, no graph is compiled and returned.
C22_SharedNameFails ==
    SharedName =>
        /\ bPhase \in {"start", "raised"}
        /\ bNodes = <<>>
        /\ bTodo = <<>>

C22_Witness == SharedName /\ bPhase = "raised"

-----------------------------------------------------------------------------
(* Properties of the model executor (SpecExecute) *)

Handled == eHandled.status # "none"

StructuredCalls == structured_tool_calls(eOutput.tool_calls)

\* C23: for every model invocation the response format in effect at the
\* binding and at the decoding is the provider strategy, the tool strategy or
\* none, never AutoStrategy: an AutoStrategy request is resolved to one of the
\* two, an explicit one is kept, the model is bound as that variant asks and
\* the output is decoded with the very same variant.
C23_ResolvedFormat ==
    /\ eBound.status = "bound" =>
          /\ eBound.effective.strategy \in {"provider", "tool", "none"}
          /\ eRequest.response_format.strategy = "auto" =>
                eBound.effective.strategy = (IF eRequest.supports_provider THEN "provider" ELSE "tool")
          /\ eRequest.response_format.strategy # "auto" =>
                eBound.effective = eRequest.response_format
          /\ eBound.binding = (IF eBound.effective.strategy = "none" THEN "plain"
                               ELSE eBound.effective.strategy)
    /\ Handled =>
          /\ eBound.status = "bound"
          /\ eHandled.decoded_with = eBound.effective
          /\ eHandled.decoded_with.strategy # "auto"

C23_Witness ==
    /\ eRequest.response_format.strategy = "auto"
    /\ eBound.binding = "tool"
    /\ eHandled.status = "returned"
    /\ eHandled.decoded_with.strategy = "tool"
    /\ eHandled.structured_response

\* C24: under the tool strategy a model turn with exactly one structured tool
\* call whose arguments validate yields exactly two messages, the assistant
\* message and then a tool message answering that call's id, together with
\* the parsed structured response.
C24_SingleStructuredCall ==
    (Handled /\ eHandled.decoded_with.strategy = "tool"
         /\ Len(StructuredCalls) = 1 /\ eOutput.valid) =>
        /\ eHandled.status = "returned"
        /\ eHandled.messages =
               <<OutputMessage, AnswerMessage("structured_response", StructuredCalls[1])>>
        /\ eHandled.structured_response

C24_Witness ==
    /\ Handled /\ eHandled.decoded_with.strategy = "tool"
    /\ Len(StructuredCalls) = 1 /\ eOutput.valid
    /\ Len(eOutput.tool_calls) = 2
    /\ StructuredCalls[1].id = 2
    /\ eHandled.structured_response

\* C25: under the tool strategy with handle_errors = True a model turn with
\* n >= 2 structured tool calls yields the assistant message followed by
\* exactly n error tool messages, one per structured call id in order, no
\* structured response, and nothing is raised.
C25_MultipleStructuredCalls ==
    (Handled /\ eHandled.decoded_with.strategy = "tool"
         /\ eHandled.decoded_with.handle_errors = [kind |-> "bool", on |-> TRUE, matches |-> {}]
         /\ Len(StructuredCalls) >= 2) =>
        /\ eHandled.status = "returned"
        /\ Len(eHandled.messages) = Len(StructuredCalls) + 1
        /\ eHandled.messages[1] = OutputMessage
        /\ \A i \in DOMAIN StructuredCalls :
              eHandled.messages[i + 1] = AnswerMessage("template", StructuredCalls[i])
        /\ ~eHandled.structured_response

C25_Witness ==
    /\ Handled /\ eHandled.decoded_with.strategy = "tool"
    /\ eHandled.decoded_with.handle_errors = [kind |-> "bool", on |-> TRUE, matches |-> {}]
    /\ Len(StructuredCalls) = 2 /\ Len(eOutput.tool_calls) = 3
    /\ Len(eHandled.messages) = 3

\* The structured-output failure of the handled turn, "none" if there is none.
FailureOfTurn ==
    IF eBound.effective.strategy = "provider"
    THEN IF eOutput.tool_calls = <<>> /\ ~eOutput.parses THEN "validation" ELSE "none"
    ELSE IF eBound.effective.strategy = "tool"
    THEN IF Len(StructuredCalls) > 1 THEN "multiple"
         ELSE IF Len(StructuredCalls) = 1 /\ ~eOutput.valid THEN "validation"
         ELSE "none"
    ELSE "none"

\* The cases in which a failure is to be raised: the provider strategy,
\* handle_errors False, an exception type or tuple the failure does not match.
MustRaise ==
    LET handle_errors == eBound.effective.handle_errors IN
    \/ eBound.effective.strategy = "provider"
    \/ handle_errors.kind = "bool" /\ ~handle_errors.on
    \/ handle_errors.kind \in {"type", "tuple"} /\ FailureOfTurn \notin handle_errors.matches

\* C26: on a structured-output failure the output handler raises exactly
\* when the strategy is the provider strategy, or handle_errors is False, or
\* handle_errors is an exception type or tuple that the failure does not
\* match; in every other case it returns the assistant message followed by
\* error tool message(s) and raises nothing.
C26_RaisesExactlyWhen ==
    (Handled /\ FailureOfTurn # "none") =>
        /\ eHandled.status = "raised" <=> MustRaise
        /\ eHandled.status = "raised" => eHandled.failure = FailureOfTurn
        /\ ~MustRaise =>
              /\ eHandled.status = "returned"
              /\ Len(eHandled.messages) = Len(StructuredCalls) + 1
              /\ \A i \in DOMAIN StructuredCalls :
                    /\ eHandled.messages[i + 1].type = "tool"
                    /\ eHandled.messages[i + 1].tool_call_id = StructuredCalls[i].id
                    /\ eHandled.messages[i + 1].content \in {"template", "literal", "computed"}
              /\ ~eHandled.structured_response

C26_Witness ==
    /\ Handled /\ FailureOfTurn = "multiple"
    /\ eBound.effective.handle_errors = [kind |-> "tuple", on |-> TRUE, matches |-> {"validation"}]
    /\ eHandled.status = "raised"

-----------------------------------------------------------------------------
(* The two multi-mode generators compared (SpecStream) *)

RECURSIVE UnifiedEvents(_)
UnifiedEvents(cs) ==
    IF cs = <<>> THEN <<>> ELSE UnifiedChunkEvents(Head(cs)) \o UnifiedEvents(Tail(cs))

\* The events yielded for the chunks fed so far (the error event, if any, is
\* the last one and is left out).
YieldedForChunks ==
    [i \in 1..Cardinality({k \in DOMAIN sOut : sOut[k].src # 0}) |-> sOut[i].ev]

\* An event of the initial streaming call with its ai_token tagged resumed.
TaggedResumed(es) ==
    [i \in DOMAIN es |-> IF es[i].type = "ai_token" THEN [es[i] EXCEPT !.resumed = TRUE]
                         ELSE es[i]]

\* C27: for the same sequence of engine chunks, resume_interrupt yields the
\* events unified_stream yields (same types, same fields, a state_update per
\* state-value update, the namespace of each interrupt_detected), except that
\* its ai_token events are tagged resumed.
C27_ResumeYieldsUnifiedEvents ==
    sMode \in {"resume", "resume_closed", "resume_failed"} =>
        YieldedForChunks = TaggedResumed(UnifiedEvents(sFed))

-----------------------------------------------------------------------------
(* Requests on different threads (SpecChat) *)

\* No run of thread t ever asked for a tool: t was never paused at an
\* interrupt and nothing was ever pending on it.
NeverCalledTools(t) == \A i \in DOMAIN msgs[t] : msgs[t][i].calls = 0

\* A send_message on t was accepted and its run ended without an exception.
SendRanThrough(t) ==
    /\ ReqDone /\ req.op = "send" /\ req.tid = t /\ ~req.raised
    /\ sent # <<>> /\ sent[1] = Ws("message_started")

\* C28: requests on different thread ids are independent, also over one
\* connection: a send_message on a thread whose runs never paused delivers
\* what it delivers when no other thread was ever used (message_started, then
\* message_complete), whatever was requested on other threads before.
C28_ThreadsIndependent ==
    \A t \in Threads :
        (SendRanThrough(t) /\ NeverCalledTools(t)) =>
            sent = << Ws("message_started"), Ws("message_complete") >>

\* The same request when the connection served no other thread.
SendAloneCompletes ==
    \A t \in Threads :
        (SendRanThrough(t) /\ NeverCalledTools(t) /\ \A u \in Threads \ {t} : ckpts[u] = 0) =>
            sent = << Ws("message_started"), Ws("message_complete") >>

-----------------------------------------------------------------------------
(* Runs without streaming (SpecChat) *)

\* The thread reached the Completed state: a final assistant message was
\* produced, nothing is left to run and no interrupt is pending.
Completed(t) ==
    /\ msgs[t] # <<>>
    /\ msgs[t][Len(msgs[t])].type = "ai"
    /\ msgs[t][Len(msgs[t])].calls = 0
    /\ nxt[t] = "none"
    /\ ints[t] = {}

\* C29: a run is reported with status completed only when its thread has
\* reached the Completed state; a run that pauses at an interrupt is not
\* reported as completed.
C29_CompletedOnlyWhenCompleted ==
    (ReqDone /\ req.op \in {"run", "run_workflow"} /\ req.status = "completed") =>
        Completed(req.tid)

\* The same for the runs of WorkflowRunner.run_workflow alone.
WorkflowCompletedOnlyWhenCompleted ==
    (ReqDone /\ req.op = "run_workflow" /\ req.status = "completed") => Completed(req.tid)

\* ---- cancel_interrupt with nothing pending, as the client sees it ----

\* C30: a cancel_interrupt request for a thread on which nothing is pending
\* is answered with a non-error outcome: no error event is sent for it.
C30_CancelIdleIsNotAnError ==
    (ReqDone /\ req.op = "cancel" /\ req.status = "no_interrupts") => ~HasEvent("error")

-----------------------------------------------------------------------------
(* resume_interrupt without an active thread (SpecChat) *)

\* The step is a resume_interrupt request on a connection without a thread.
ResumeStepWithoutThread ==
    reqCount' = reqCount + 1 /\ req'.op = "resume" /\ connThread = NoThread

\* C31: a resume_interrupt request on a connection that has no active thread
\* sends exactly one error event, resumes no thread (no thread's checkpointed
\* state changes and no tool body runs), leaves the connection's pending
\* interrupts as they were, and leaves the connection ready for the next
\* request.
C31_ResumeWithoutThread ==
    /\ [][ResumeStepWithoutThread =>
             /\ sent' = << Ws("error") >>
             /\ pending' = pending
             /\ connThread' = connThread
             /\ msgs' = msgs /\ nxt' = nxt /\ ints' = ints /\ ckpts' = ckpts
             /\ bodyRuns' = bodyRuns
             /\ req'.phase = "done" /\ ~req'.answer]_vars
    /\ []((ReqDone /\ req.op = "resume" /\ req.tid = NoThread /\ reqCount < MaxRequests)
             => Receiving)

\* The refused resume was served after an earlier request of the connection.
C31_Witness ==
    /\ ReqDone /\ req.op = "resume" /\ req.tid = NoThread /\ connThread = NoThread
    /\ sent = << Ws("error") >>
    /\ reqCount >= 2

-----------------------------------------------------------------------------
(* Properties of the retries (SpecRetry) *)

\* The step is a request of kind op on thread t.
RequestStep(op, t) == reqCount' = reqCount + 1 /\ req'.op = op /\ req'.tid = t

\* C32: after retry_message on a thread whose last message is an assistant
\* message, the transcript is the history without that message followed by
\* the regenerated assistant message: the new message stands in place of the
\* old one, never next to it.
C32_RetryReplacesAssistantTurn ==
    [][\A t \in Threads :
          (/\ RequestStep("retry", t)
           /\ msgs[t] # <<>>
           /\ msgs[t][Len(msgs[t])].type = "ai"
           /\ req'.status = "completed")
              => /\ Len(msgs'[t]) = Len(msgs[t])
                 /\ SubSeq(msgs'[t], 1, Len(msgs[t]) - 1) = SubSeq(msgs[t], 1, Len(msgs[t]) - 1)
                 /\ msgs'[t][Len(msgs'[t])].type = "ai"]_vars

\* C33: message-id retry leaves every message before the target as it was,
\* keeps the target under its id (with new content only when modified content
\* was supplied), removes every message after the target, and regenerates on
\* that transcript: the result is the kept messages followed by the new
\* assistant message, or the kept messages alone when the model call fails.
C33_RetryFromMessageFrame ==
    [][\A t \in Threads : \A index \in 1..Len(msgs[t]) :
          (/\ RequestStep("retry_from", t)
           /\ req'.target = msgs[t][index].id
           /\ req'.status # "invalid")
              => /\ Len(msgs'[t]) = index + (IF req'.raised THEN 0 ELSE 1)
                 /\ SubSeq(msgs'[t], 1, index - 1) = SubSeq(msgs[t], 1, index - 1)
                 /\ msgs'[t][index].id = msgs[t][index].id
                 /\ msgs'[t][index].type = msgs[t][index].type
                 /\ ~req'.modified => msgs'[t][index] = msgs[t][index]
                 /\ req'.modified => msgs'[t][index].content = "modified"
                 /\ ~req'.raised => msgs'[t][index + 1].type = "ai"]_vars

\* The first message of a thread with two completed turns was rewritten: the
\* three messages after it are gone and one regenerated answer follows it.
C33_Witness ==
    /\ ReqDone /\ req.op = "retry_from" /\ req.status = "completed" /\ req.modified
    /\ Len(msgs[req.tid]) = 2
    /\ msgs[req.tid][1].id = req.target
    /\ msgs[req.tid][1].content = "modified"
    /\ ckpts[req.tid] >= 6


-----------------------------------------------------------------------------
(* Properties of the virtual filesystem (SpecFiles) *)

\* DEFAULT_READ_LIMIT of read_file, and a read of one line.
ReadLimits == {1, 500}

\* The lines read are the lines of the text in order, the last of them
\* possibly cut short.
IsPrefixOf(read, text) ==
    /\ Len(read) <= Len(text.lines)
    /\ \A i \in DOMAIN read :
          /\ read[i].number = i
          /\ IF i < Len(read) THEN read[i].text = text.lines[i]
                              ELSE read[i].text <= text.lines[i]

\* The tool call i of the turn has run and its result is larger than four
\* times the configured limit.
LargeResult(i) ==
    /\ i \in DOMAIN fTurn
    /\ fTurn[i].done
    /\ fTurn[i].call.name \notin FilesystemTools
    /\ fLimit # NoLimit
    /\ TextLength(fTurn[i].call.content) > 4 * fLimit

\* C34: every tool result longer than 4 * tool_token_limit_before_evict is
\* replaced by a pointer message naming /large_tool_results/<sanitized id>,
\* and once the update of the turn is in the state, every read of that path
\* at offset 0 gives a prefix of the original result.
C34_LargeResultEvictedAndReadBack ==
    \A i \in DOMAIN fTurn :
        LargeResult(i) =>
            /\ fTurn[i].result.kind = "pointer"
            /\ fTurn[i].result.file_path = LargeResultPath(fTurn[i].call.id)
            /\ fPhase = "applied" =>
                  \A limit \in ReadLimits :
                      LET out == backend_read(fFiles, LargeResultPath(fTurn[i].call.id), 0, limit)
                      IN  /\ ~out.error
                          /\ IsPrefixOf(out.lines, fTurn[i].call.content)

\* The call i of the turn went through the backend's write and succeeded.
WriteSucceeded(i) ==
    /\ fTurn[i].done
    /\ fTurn[i].call.name # "edit_file"
    /\ fTurn[i].result.kind \in {"updated", "pointer"}

\* The call i of the turn was an edit_file of path p that succeeded.
EditSucceeded(i, p) ==
    /\ fTurn[i].done
    /\ fTurn[i].call.name = "edit_file"
    /\ fTurn[i].result.kind = "updated"
    /\ fTurn[i].result.file_path = p

\* The content of an existing path changes only where an edit of the turn
\* succeeded on it.
ContentChangesOnlyThroughEdit ==
    [][\A p \in DOMAIN fFiles :
          /\ p \in DOMAIN fFiles'
          /\ fFiles'[p] # fFiles[p] => \E i \in DOMAIN fTurn : EditSucceeded(i, p)]_vars

\* A write_file to a path that exists fails.
WriteToExistingFails ==
    \A i \in DOMAIN fTurn :
        (fTurn[i].done /\ fTurn[i].call.name = "write_file"
            /\ fTurn[i].call.file_path \in DOMAIN fFiles /\ fPhase = "running")
        => fTurn[i].result.kind = "error"

\* Of the calls of one turn, at most one writes a given path successfully.
OneWriterPerPath ==
    \A i, j \in DOMAIN fTurn :
        (i < j /\ WriteSucceeded(i) /\ WriteSucceeded(j))
        => fTurn[i].result.file_path # fTurn[j].result.file_path

\* C40: a write never replaces the content of an existing file: a write to
\* an existing path fails, the content of a path changes only through edit,
\* and of two calls of one turn writing the same path only one succeeds.
C40_WriteNeverReplaces ==
    /\ ContentChangesOnlyThroughEdit
    /\ [](WriteToExistingFails /\ OneWriterPerPath)


-----------------------------------------------------------------------------
(* Properties of the task tool (SpecTask) *)

\* The child has been seeded and has not run yet.
ChildSeeded == tPhase = "child" /\ tSteps = 0

\* The child's state holds none of the parent's messages, todos or
\* structured_response, and its messages are the one human message with
\* the prompt.
ChildIsolated ==
    /\ tChild["messages"] = <<TaskMessage("human", tCall.prompt)>>
    /\ \A i \in DOMAIN tParent["messages"] : tParent["messages"][i] # tChild["messages"][1]
    /\ "todos" \notin DOMAIN tChild
    /\ "structured_response" \notin DOMAIN tChild

\* The run of a child changes, of the parent's state, only the messages, by
\* one tool message with the content of the child's last message.
OnlyFinalContentFlowsBack ==
    (tPhase = "child" /\ tParent' # tParent) =>
        /\ DOMAIN tParent' = DOMAIN tParent
        /\ \A k \in DOMAIN tParent \ {"messages"} : tParent'[k] = tParent[k]
        /\ tParent'["messages"] =
              Append(tParent["messages"],
                     TaskMessage("tool", tChild["messages"][Len(tChild["messages"])].content))

\* C35: the child of a task call starts with none of the parent's messages,
\* todos or structured_response and with exactly one human message holding
\* the prompt; only the content of its final message comes back, as the
\* tool message, and no other key of the parent's state changes.
C35_ChildIsolatedAndOnlyContentReturns ==
    /\ [](ChildSeeded => ChildIsolated)
    /\ [][OnlyFinalContentFlowsBack]_vars

\* A child that wrote todos, files and a structured response of its own has
\* returned to a parent that has all three keys.
C35_Witness ==
    /\ tPhase = "returned"
    /\ DOMAIN tParent = {"messages", "todos", "structured_response", "files"}
    /\ "todos" \in DOMAIN tChild
    /\ tChild["files"] = "f1"


-----------------------------------------------------------------------------
(* Properties of the schema resolution (SpecSchema) *)

\* No field name is declared by two of the schemas.
DisjointFields ==
    \A s1, s2 \in gSchemas : s1 # s2 => DOMAIN s1 \cap DOMAIN s2 = {}

\* The metadata a field type was declared with, whatever is wrapped around
\* the annotation.
DeclaredMetadata(type) ==
    CASE type.origin = "Annotated" -> type.metadata
      [] type.origin = "plain" -> {}
      [] OTHER -> IF type.inner.origin = "Annotated" THEN type.inner.metadata ELSE {}

\* The fields the schemas declare with OmitFromSchema(input=True).
OmittedForInput ==
    {f \in FieldNames : \E s \in gSchemas :
        f \in DOMAIN s /\ OmitInput \in DeclaredMetadata(s[f])}

\* C36: for schemas with disjoint field names the full-state schema has
\* exactly the union of their fields, each with its declared type, and a
\* field declared omitted for input is not in the input schema and is in the
\* full-state schema.
C36_MergedSchemaIsUnion ==
    (gPass = "done" /\ DisjointFields) =>
        /\ DOMAIN gResolved["state"] = UNION {DOMAIN s : s \in gSchemas}
        /\ \A s \in gSchemas : \A f \in DOMAIN s : gResolved["state"][f] = s[f]
        /\ \A f \in OmittedForInput :
              f \notin DOMAIN gResolved["input"] /\ f \in DOMAIN gResolved["state"]
        /\ DOMAIN gResolved["input"] = DOMAIN gResolved["state"] \ OmittedForInput

\* Two schemas with one field each have been resolved, one of the fields
\* declared NotRequired and omitted for input.
C36_Witness ==
    /\ gPass = "done"
    /\ Cardinality(gSchemas) = 2
    /\ DisjointFields
    /\ \E s \in gSchemas : \E f \in DOMAIN s :
          s[f] = Wrapped("NotRequired", AnnotatedType({Reducer, OmitInput}))
    /\ DOMAIN gResolved["state"] = FieldNames


-----------------------------------------------------------------------------
(* Properties of a run under the recursion limit (SpecRunLive) *)

-----------------------------------------------------------------------------
(* The connection's record of pending interrupts (SpecChat) *)

\* C38: after every completed send_message, resume_interrupt or
\* cancel_interrupt request, pending_interrupts of the connection holds
\* exactly the interrupts pending in the checkpointed state of the
\* connection's current thread.
C38_PendingInterruptsMatchThread ==
    (ReqDone /\ req.op \in {"send", "resume", "cancel"} /\ connThread # NoThread)
        => pending = ints[connThread]


-----------------------------------------------------------------------------
(* Properties of the approval wrapper (SpecApproval) *)

\* The tool body runs only in a resume whose response has action approve,
\* with the arguments of the call, or action modify, with the modified
\* arguments of the response.
BodyOnlyAfterApproval ==
    [][aExec' # aExec =>
          /\ aPhase = "paused"
          /\ aResp'.kind = "dict"
          /\ \/ aResp'.action = "approve" /\ aExec' = Append(aExec, aArgs)
             \/ aResp'.action = "modify" /\ aExec' = Append(aExec, aResp'.modified_args)]_vars

\* A resume that reached the interrupt with any other response has the
\* wrapper return the denied result.
OtherResponseDenied ==
    (aPhase \in {"returned", "raised"} /\ ~(aResp.kind = "dict" /\ aResp.action \in {"approve", "modify"}))
        => (aPhase = "returned" /\ aResult = "denied")

\* C39: the body of a tool wrapped with require_approval runs only after a
\* resume with action approve (original arguments) or modify (modified
\* arguments); any other response gets the denied result without a run of
\* the body; while the interrupt is unanswered or after a cancel the body
\* does not run.
C39_BodyRunsOnlyWhenApproved ==
    /\ BodyOnlyAfterApproval
    /\ []OtherResponseDenied

====
